---- MODULE Spec2Model ----
(***************************************************************************)
(* A model of the Zketech battery tester controller: the frame codec       *)
(* (zketech.py: RequestDataSet, RequestFrame, check_buffer_validity,       *)
(* ResponseFrame, ResponseDataSet), the session that reads the device's    *)
(* frames (Zketech.read_response), the commands it sends (start_device ..  *)
(* calibrate_current) and the safety watcher of the text interface         *)
(* (cmd_control.py: SafetyWatcher).                                        *)
(*                                                                         *)
(* Bytes are integers 0..255 and a buffer is a sequence of bytes.  Python  *)
(* indexes from 0; Byte(buff, k) reads buff[k] of the source.  Currents    *)
(* and voltages, which the source holds as raw/1000 (a float), are held as *)
(* the raw integer (mA, mV): the quotient is exact in the rationals.       *)
(***************************************************************************)
EXTENDS Integers, Sequences, FiniteSets, TLC

VARIABLES
    \* the codec bench (SpecCodec)
    c_req,          \* the arguments of the last RequestDataSet built
    c_enc,          \* what building and encoding it gave
    c_buff,         \* the buffer handed to the decoder
    c_dec,          \* what get_response_data_set(c_buff) gave, or pending
    c_base,         \* the buffer before the last single-byte replacement
    c_base_dec,     \* what decoding c_base had given
    c_pos,          \* the (0-based) position last replaced, -1 if none
    c_edits,        \* number of edits made to the buffer so far
    c_fix,          \* the field and value the buffer was made to carry
    \* the session (Spec)
    is_open,        \* Serial.isOpen()
    rx,             \* the bytes waiting in the transport's input buffer
    device_state,   \* Zketech.device_state
    prog_state,     \* Zketech.prog_state
    part_number,    \* Zketech.part_number
    op,             \* the last operation of the session
    ret,            \* how it ended
    got,            \* the buffer the last read attempt obtained
    pre,            \* the session fields before the last operation
    last_valid,     \* program and model of the most recent valid response
    \* the commands of the session (SpecCommands)
    cmd,            \* the last command called and its arguments
    cmd_pre,        \* the fields of the session before it
    tx,             \* the frames it wrote to the transport
    flushed,        \* whether it discarded the transport's input buffer
    rx_pre,         \* the input buffer before the last operation on record
    arrived,        \* the bytes that arrived while it read
    rx_left,        \* the input buffer as it left it
    \* the safety watcher (SpecWatcher)
    min_voltage, min_current, last_voltage, last_current,
    samples,        \* the responses handed to update so far
    sw_ret,         \* what update returned last
    sw_check,       \* what check() returned after the last update, or pending
    loop            \* the polling program that is running, or how it ended

codec_vars == <<c_req, c_enc, c_buff, c_dec, c_base, c_base_dec, c_pos, c_edits,
                c_fix>>
session_vars == <<is_open, rx, device_state, prog_state, part_number, op, ret,
                  got, pre, last_valid>>
watcher_vars == <<min_voltage, min_current, last_voltage, last_current,
                  samples, sw_ret, sw_check, loop>>
command_vars == <<cmd, cmd_pre, tx, flushed, rx_pre, arrived, rx_left>>
vars == <<codec_vars, session_vars, watcher_vars, command_vars>>

-----------------------------------------------------------------------------
(* Bounds of the model *)

\* edits (byte replacements, truncations) applied to one buffer on the bench
MaxEdits == 1
\* bytes the transport's input buffer holds before the device has to wait
MaxRx == 29
\* responses handed to one safety watcher
MaxSamples == 4

-----------------------------------------------------------------------------
(* Protocol constants and enumerations *)

\* Python's None
None == -1

BEGIN_MARKER == 250
END_MARKER == 248

ReqCode ==
    [stop_device |-> 6, stop_test |-> 2, start_device |-> 5,
     mes_resistance |-> 9, update_test |-> 7, calibrate |-> 4,
     start_d_cc |-> 1, start_d_cp |-> 17, start_c_nimh |-> 33,
     start_c_nicd |-> 49, start_c_liion |-> 65, start_c_life |-> 81,
     start_c_vrla |-> 97, start_c_cv |-> 120, conti_d_cc |-> 8,
     conti_d_cp |-> 24, conti_c_nimh |-> 40, conti_c_nicd |-> 56,
     conti_c_liion |-> 72, conti_c_life |-> 88, conti_c_vrla |-> 104,
     conti_c_cv |-> 120]

ReqCodeNames == DOMAIN ReqCode
ReqCodeValues == {ReqCode[n] : n \in ReqCodeNames}

StateCode == [init |-> 10, ended |-> 0, testing |-> 1, ending |-> 2]
StateCodeValues == {StateCode[n] : n \in DOMAIN StateCode}

ProgCode ==
    [d_cc |-> 0, d_cp |-> 1, c_nimh |-> 2, c_nicd |-> 3, c_liion |-> 4,
     c_life |-> 5, c_vrla |-> 6, c_cv |-> 7]
ProgCodeValues == {ProgCode[n] : n \in DOMAIN ProgCode}

\* PartNumber: ebc_a = 1 .. ebd_a20h = 19
PartNumberValues == 1..19

DeviceState == {"disconnected", "idle", "monitoring", "testing", "ending"}

-----------------------------------------------------------------------------
(* Bytes *)

Byte(buff, k) == buff[k + 1]

\* buff[a:b] of Python, for 0 <= a <= b <= len(buff)
Slice(buff, a, b) == SubSeq(buff, a + 1, b)

Bit(a, k) == (a \div k) % 2

XorBit(a, b, k) == (Bit(a, k) + Bit(b, k)) % 2

\* The exclusive or of the bytes a and b, tabulated at 256 * a + b.
XorTable ==
    [n \in 0..65535 |->
        XorBit(n \div 256, n % 256, 1) + 2 * XorBit(n \div 256, n % 256, 2)
        + 4 * XorBit(n \div 256, n % 256, 4)
        + 8 * XorBit(n \div 256, n % 256, 8)
        + 16 * XorBit(n \div 256, n % 256, 16)
        + 32 * XorBit(n \div 256, n % 256, 32)
        + 64 * XorBit(n \div 256, n % 256, 64)
        + 128 * XorBit(n \div 256, n % 256, 128)]

\* operator.xor on two bytes
xor(a, b) == XorTable[256 * a + b]

\* functools.reduce(xor, buff) on a non-empty buffer, from the left: acc is
\* the value reduced so far, k the next position.
RECURSIVE reduce_from(_, _, _)
reduce_from(buff, k, acc) ==
    IF k > Len(buff) THEN acc
    ELSE reduce_from(buff, k + 1, xor(acc, buff[k]))

reduce_xor(buff) == reduce_from(buff, 2, buff[1])

zketech_checksum_mod256(buff) == reduce_xor(buff) % 256

zketech_checksum(buff) == reduce_xor(buff) % 240

-----------------------------------------------------------------------------
(* Frame validity *)

\* The checks of check_buffer_validity made in another order: the response
\* code before the checksum.
buffer_warning_status_first(buff) ==
    IF Len(buff) \notin {10, 19} THEN "length"
    ELSE IF Byte(buff, 0) # BEGIN_MARKER THEN "begin"
    ELSE IF Byte(buff, Len(buff) - 1) # END_MARKER THEN "end"
    ELSE IF Len(buff) = 19 /\ (Byte(buff, 1) \div 10) \notin StateCodeValues
        THEN "status"
    ELSE IF Byte(buff, Len(buff) - 2)
                # zketech_checksum(Slice(buff, 1, Len(buff) - 2))
        THEN "checksum"
    ELSE IF Len(buff) = 10
        THEN (IF Byte(buff, 1) \notin ReqCodeValues THEN "reqcode" ELSE "none")
    ELSE IF (Byte(buff, 1) % 10) \notin ProgCodeValues THEN "program"
    ELSE IF Byte(buff, Len(buff) - 3) \notin PartNumberValues THEN "model"
    ELSE "none"

\* check_buffer_validity without its test of the end marker.
buffer_warning_no_end_marker(buff) ==
    IF Len(buff) \notin {10, 19} THEN "length"
    ELSE IF Byte(buff, 0) # BEGIN_MARKER THEN "begin"
    ELSE IF Byte(buff, Len(buff) - 2)
                # zketech_checksum(Slice(buff, 1, Len(buff) - 2))
        THEN "checksum"
    ELSE IF Len(buff) = 10
        THEN (IF Byte(buff, 1) \notin ReqCodeValues THEN "reqcode" ELSE "none")
    ELSE IF (Byte(buff, 1) \div 10) \notin StateCodeValues THEN "status"
    ELSE IF (Byte(buff, 1) % 10) \notin ProgCodeValues THEN "program"
    ELSE IF Byte(buff, Len(buff) - 3) \notin PartNumberValues THEN "model"
    ELSE "none"

\* The warning check_buffer_validity logs on its way to returning False:
\* the check that rejected the buffer, "none" when it returns True.
buffer_warning(buff) ==
    IF Len(buff) \notin {10, 19} THEN "length"
    ELSE IF Byte(buff, 0) # BEGIN_MARKER THEN "begin"
    ELSE IF Byte(buff, Len(buff) - 1) # END_MARKER THEN "end"
    ELSE IF Byte(buff, Len(buff) - 2)
                # zketech_checksum(Slice(buff, 1, Len(buff) - 2))
        THEN "checksum"
    ELSE IF Len(buff) = 10
        THEN (IF Byte(buff, 1) \notin ReqCodeValues THEN "reqcode" ELSE "none")
    ELSE IF (Byte(buff, 1) \div 10) \notin StateCodeValues THEN "status"
    ELSE IF (Byte(buff, 1) % 10) \notin ProgCodeValues THEN "program"
    ELSE IF Byte(buff, Len(buff) - 3) \notin PartNumberValues THEN "model"
    ELSE "none"

check_buffer_validity(buff) == buffer_warning(buff) = "none"

-----------------------------------------------------------------------------
(* Requests *)

\* The high/low split of a parameter with the wrong base.
split_base256(p) == <<p \div 256, p % 256>>

\* p // 240, p % 240
split(p) == <<p \div 240, p % 240>>

\* The descriptor built without the test of the upper bound.
RequestDataSet_unbounded(req_code, p1, p2, p3) ==
    IF p1 < 0 \/ p2 < 0 \/ p3 < 0 THEN [kind |-> "raise", exc |-> "ValueError"]
    ELSE LET values_to_checksum ==
                 <<ReqCode[req_code]>> \o split(p1) \o split(p2) \o split(p3)
         IN [kind |-> "data",
             begin_marker |-> BEGIN_MARKER,
             req_code |-> req_code,
             req_code_val |-> ReqCode[req_code],
             p1 |-> p1, p1_h |-> split(p1)[1], p1_l |-> split(p1)[2],
             p2 |-> p2, p2_h |-> split(p2)[1], p2_l |-> split(p2)[2],
             p3 |-> p3, p3_h |-> split(p3)[1], p3_l |-> split(p3)[2],
             checksum |-> zketech_checksum(values_to_checksum),
             end_marker |-> END_MARKER]

\* RequestDataSet.__init__: the descriptor, or the ValueError it raises.
RequestDataSet(req_code, p1, p2, p3) ==
    IF p1 < 0 \/ p2 < 0 \/ p3 < 0 THEN [kind |-> "raise", exc |-> "ValueError"]
    ELSE IF p1 > 57600 \/ p2 > 57600 \/ p3 > 57600
        THEN [kind |-> "raise", exc |-> "ValueError"]
    ELSE LET values_to_checksum ==
                 <<ReqCode[req_code]>> \o split(p1) \o split(p2) \o split(p3)
         IN [kind |-> "data",
             begin_marker |-> BEGIN_MARKER,
             req_code |-> req_code,
             req_code_val |-> ReqCode[req_code],
             p1 |-> p1, p1_h |-> split(p1)[1], p1_l |-> split(p1)[2],
             p2 |-> p2, p2_h |-> split(p2)[1], p2_l |-> split(p2)[2],
             p3 |-> p3, p3_h |-> split(p3)[1], p3_l |-> split(p3)[2],
             checksum |-> zketech_checksum(values_to_checksum),
             end_marker |-> END_MARKER]

\* RequestFrame.get_buffer: struct.pack of ten unsigned bytes raises
\* struct.error on a value outside 0..255; a frame that fails the validity
\* check is replaced by the empty buffer.
get_buffer(data) ==
    LET values == <<data.begin_marker, ReqCode[data.req_code],
                    data.p1_h, data.p1_l, data.p2_h, data.p2_l,
                    data.p3_h, data.p3_l, data.checksum, data.end_marker>>
    IN IF \E k \in 1..10 : values[k] \notin 0..255
           THEN [kind |-> "raise", exc |-> "struct.error"]
       ELSE IF ~check_buffer_validity(values)
           THEN [kind |-> "bytes", buff |-> <<>>]
       ELSE [kind |-> "bytes", buff |-> values]

\* Building the descriptor and encoding it, as send_request does.
encode(req_code, p1, p2, p3) ==
    LET data == RequestDataSet(req_code, p1, p2, p3)
    IN IF data.kind = "raise" THEN data ELSE get_buffer(data)

-----------------------------------------------------------------------------
(* Responses *)

\* The descriptor with high bytes weighted 256.
ResponseDataSet_base256(buff) ==
    [state_code |-> Byte(buff, 1) \div 10,
     prog_code |-> Byte(buff, 1) % 10,
     i |-> Byte(buff, 2) * 256 + Byte(buff, 3),
     u |-> Byte(buff, 4) * 256 + Byte(buff, 5),
     c |-> Byte(buff, 6) * 256 + Byte(buff, 7),
     unknown |-> Byte(buff, 8) * 256 + Byte(buff, 9),
     p1 |-> Byte(buff, 10) * 256 + Byte(buff, 11),
     p2 |-> Byte(buff, 12) * 256 + Byte(buff, 13),
     p3 |-> Byte(buff, 14) * 256 + Byte(buff, 15),
     part_number |-> Byte(buff, 16),
     checksum |-> Byte(buff, 17)]

\* ResponseDataSet.__init__ on the nineteen unpacked bytes.  i and u are
\* the raw values: the source's i is i/1000.
ResponseDataSet(buff) ==
    [state_code |-> Byte(buff, 1) \div 10,
     prog_code |-> Byte(buff, 1) % 10,
     i |-> Byte(buff, 2) * 240 + Byte(buff, 3),
     u |-> Byte(buff, 4) * 240 + Byte(buff, 5),
     c |-> Byte(buff, 6) * 240 + Byte(buff, 7),
     unknown |-> Byte(buff, 8) * 240 + Byte(buff, 9),
     p1 |-> Byte(buff, 10) * 240 + Byte(buff, 11),
     p2 |-> Byte(buff, 12) * 240 + Byte(buff, 13),
     p3 |-> Byte(buff, 14) * 240 + Byte(buff, 15),
     part_number |-> Byte(buff, 16),
     checksum |-> Byte(buff, 17)]

\* ResponseFrame.get_response_data_set: None (with the warning logged) for
\* a rejected buffer; struct.unpack of nineteen bytes raises struct.error
\* on a buffer of another length.
get_response_data_set(buff) ==
    IF ~check_buffer_validity(buff)
        THEN [kind |-> "None", warning |-> buffer_warning(buff)]
    ELSE IF Len(buff) # 19
        THEN [kind |-> "raise", exc |-> "struct.error"]
    ELSE [kind |-> "data", data |-> ResponseDataSet(buff)]

Pending == [kind |-> "pending"]

-----------------------------------------------------------------------------
(* What the device puts on the line *)

\* A 19-byte response frame as the device lays it out (ResponseFrame.labels),
\* with the protocol's checksum, for a response code, raw current, raw
\* capacity and model byte; voltage 4200 mV, the other fields 0.
ResponseFixture(res_code_val, i, c, part_number_val) ==
    LET payload == <<res_code_val, i \div 240, i % 240, 4200 \div 240,
                     4200 % 240, c \div 240, c % 240, 0, 0, 0, 0, 0, 0, 0, 0,
                     part_number_val>>
    IN <<250>> \o payload \o <<reduce_xor(payload) % 240, 248>>

\* Response codes: ended/testing/ending/init with several programs, and
\* codes whose status (3, 11) or program (8) is unknown.
FixtureCodes == {0, 10, 17, 20, 100, 35, 18, 110}
FixtureCurrents == {0, 1000}
FixtureCapacities == {500}
FixtureModels == {5, 19, 20}

\* The metric and echoed-parameter fields of a response, in frame order.
FieldNames == <<"i", "u", "c", "unknown", "p1", "p2", "p3">>

\* A 19-byte response frame (testing, program d-cc, model 5) carrying
\* (v div 240, v mod 240) in one field and 0 in the six others.
FieldFixture(field, v) ==
    LET pair(k) == IF FieldNames[k] = field THEN <<v \div 240, v % 240>>
                   ELSE <<0, 0>>
        payload == <<10>> \o pair(1) \o pair(2) \o pair(3) \o pair(4)
                          \o pair(5) \o pair(6) \o pair(7) \o <<5>>
    IN <<250>> \o payload \o <<reduce_xor(payload) % 240, 248>>

\* Values below 57600 with high and low digits at and between their ends.
RoundTripDigits == {0, 1, 15, 16, 127, 238, 239}
RoundTripValues == {h * 240 + l : h \in RoundTripDigits, l \in RoundTripDigits}

Fixtures ==
    {ResponseFixture(rc, i, c, m) :
        rc \in FixtureCodes, i \in FixtureCurrents,
        c \in FixtureCapacities, m \in FixtureModels}

-----------------------------------------------------------------------------
(* The codec bench: requests are encoded, buffers are decoded, edited and   *)
(* decoded again.                                                           *)

\* Parameter triples around the bounds of RequestDataSet.
ParamTriples ==
    {<<0, 0, 0>>, <<57600, 57600, 57600>>, <<239, 240, 241>>,
     <<1000, 9600, 0>>, <<57599, 1, 999>>, <<3855, 15, 3840>>,
     <<-1, 0, 0>>, <<0, -1, 0>>, <<0, 0, -1>>,
     <<57601, 0, 0>>, <<0, 57601, 0>>, <<0, 0, 57601>>, <<60000, 0, 0>>}

\* Positions edited in a buffer of length n: the markers, the code, the
\* first and last payload bytes, the checksum.
EditPositions(n) == {0, 1, 2, n - 3, n - 2, n - 1} \cap (0..(n - 1))
EditValues == {0, 10, 240, 250}
TruncatedLengths == {1, 10, 18}

NoReq == [req_code |-> "none", p1 |-> 0, p2 |-> 0, p3 |-> 0]
NoFix == [field |-> "none", v |-> 0]

\* The bench with buffer b on it, nothing encoded or decoded yet.
CodecStart(b) ==
    /\ c_req = NoReq
    /\ c_enc = Pending
    /\ c_buff = b
    /\ c_dec = Pending
    /\ c_base = <<>>
    /\ c_base_dec = Pending
    /\ c_pos = -1
    /\ c_edits = 0
    /\ c_fix = NoFix

\* RequestDataSet(...) then RequestFrame().get_buffer(data), on a bench
\* nothing was done on yet; the frame made is the next buffer on the bench.
Encode(req_code, p) ==
    LET e == encode(req_code, p[1], p[2], p[3])
    IN /\ c_req = NoReq /\ c_dec = Pending /\ c_edits = 0
       /\ c_req' = [req_code |-> req_code, p1 |-> p[1], p2 |-> p[2],
                    p3 |-> p[3]]
       /\ c_enc' = e
       /\ c_buff' = IF e.kind = "bytes" THEN e.buff ELSE <<>>
       /\ c_dec' = Pending
       /\ c_base' = <<>>
       /\ c_base_dec' = Pending
       /\ c_pos' = -1
       /\ c_edits' = 0
       /\ UNCHANGED c_fix

\* ResponseFrame().get_response_data_set(c_buff)
Decode ==
    /\ c_dec = Pending
    /\ c_dec' = get_response_data_set(c_buff)
    /\ UNCHANGED <<c_req, c_enc, c_buff, c_base, c_base_dec, c_pos, c_edits,
                   c_fix>>

\* One byte of a decoded buffer is replaced by a different value.
Replace(k, v) ==
    /\ c_dec # Pending
    /\ c_edits < MaxEdits
    /\ k \in EditPositions(Len(c_buff))
    /\ v # Byte(c_buff, k)
    /\ c_base' = c_buff
    /\ c_base_dec' = c_dec
    /\ c_pos' = k
    /\ c_buff' = [c_buff EXCEPT ![k + 1] = v]
    /\ c_dec' = Pending
    /\ c_edits' = c_edits + 1
    /\ UNCHANGED <<c_req, c_enc, c_fix>>

\* The read timed out before the whole frame arrived: only the first n
\* bytes of the buffer are there.
Truncate(n) ==
    /\ c_dec # Pending
    /\ c_edits < MaxEdits
    /\ n < Len(c_buff)
    /\ c_buff' = SubSeq(c_buff, 1, n)
    /\ c_dec' = Pending
    /\ c_base' = <<>>
    /\ c_base_dec' = Pending
    /\ c_pos' = -1
    /\ c_edits' = c_edits + 1
    /\ UNCHANGED <<c_req, c_enc, c_fix>>

-----------------------------------------------------------------------------
(* The session: Zketech(Serial) *)

\* The fields of the Zketech object as one value.
Session ==
    [device_state |-> device_state, prog_state |-> prog_state,
     part_number |-> part_number]

\* read_response, its first two statements.
on_entry_keep(s) == s

on_entry(s) == [s EXCEPT !.part_number = None]

\* read_response on a closed port.
on_closed(s) == [s EXCEPT !.device_state = "disconnected"]

\* read_response when read(size=19) returned nothing.
on_no_bytes_keep(s) == s

on_no_bytes(s) == [s EXCEPT !.device_state = "idle"]

\* read_response on a buffer check_buffer_validity rejects.
on_invalid_idle(s) == [s EXCEPT !.device_state = "idle"]

on_invalid(s) == s

\* The refinement of the state with the ending status forgotten.
on_response_no_ending(s, r) ==
    IF r.kind = "raise" THEN [s EXCEPT !.device_state = "monitoring"]
    ELSE [device_state |->
              IF r.data.state_code = StateCode.testing THEN "testing"
              ELSE "monitoring",
          prog_state |-> r.data.prog_code,
          part_number |-> r.data.part_number]

\* read_response on a buffer check_buffer_validity accepts, r being what
\* get_response_data_set made of it: the state is monitoring before the
\* frame is unpacked, and stays so when unpacking raises.
on_response(s, r) ==
    IF r.kind = "raise" THEN [s EXCEPT !.device_state = "monitoring"]
    ELSE [device_state |->
              IF r.data.state_code = StateCode.ending THEN "ending"
              ELSE IF r.data.state_code = StateCode.testing THEN "testing"
              ELSE "monitoring",
          prog_state |-> r.data.prog_code,
          part_number |-> r.data.part_number]

\* The read without the discarding of a backlog.
read_19_no_discard(waiting, arriving) ==
    LET line == waiting \o arriving
        buff == SubSeq(line, 1, IF Len(line) < 19 THEN Len(line) ELSE 19)
    IN [buff |-> buff, rest |-> SubSeq(line, Len(buff) + 1, Len(line))]

\* read_response from the test of in_waiting to read(size=19), waiting
\* being the input buffer and arriving what the device sends before read
\* returns: the input buffer is emptied when it holds more than 19 bytes,
\* and read takes the first 19 bytes there are, leaving the rest.
read_19(waiting, arriving) ==
    LET kept == IF Len(waiting) > 19 THEN <<>> ELSE waiting
        line == kept \o arriving
        buff == SubSeq(line, 1, IF Len(line) < 19 THEN Len(line) ELSE 19)
    IN [buff |-> buff, rest |-> SubSeq(line, Len(buff) + 1, Len(line))]

\* read_response once the port is known to be open and read(size=19) has
\* returned buff: the fields afterwards and what the call returns.
read_outcome(s, buff) ==
    IF Len(buff) = 0
        THEN [s |-> on_no_bytes(on_entry(s)), ret |-> [kind |-> "None"]]
    ELSE IF ~check_buffer_validity(buff)
        THEN [s |-> on_invalid(on_entry(s)), ret |-> [kind |-> "None"]]
    ELSE LET r == get_response_data_set(buff)
         IN [s |-> on_response(on_entry(s), r), ret |-> r]

\* What the device sends: response frames of every status, a frame whose
\* checksum byte is wrong, the first twelve bytes of a frame, and a
\* well-formed ten-byte request-shaped frame.
RxChunks ==
    {ResponseFixture(0, 1000, 500, 5), ResponseFixture(10, 1000, 500, 5),
     ResponseFixture(17, 1060, 500, 19), ResponseFixture(20, 1000, 500, 5),
     ResponseFixture(100, 0, 0, 19),
     [ResponseFixture(10, 1000, 500, 5) EXCEPT ![18] = 239],
     <<250, 10, 4, 40, 17, 120, 2, 20, 0, 0, 0, 0>>,
     <<250, 5, 0, 0, 0, 0, 0, 0, 5, 248>>}

\* The fields a later operation is compared with.
Before ==
    [device_state |-> device_state, prog_state |-> prog_state,
     is_open |-> is_open]

NoSession ==
    [device_state |-> "disconnected", prog_state |-> None, is_open |-> FALSE]

\* Zketech.__init__: the port is open (Serial raises otherwise), the state
\* idle; prog_state and part_number keep their class defaults.
SessionInit ==
    /\ is_open = TRUE
    /\ rx = <<>>
    /\ device_state = "idle"
    /\ prog_state = None
    /\ part_number = None
    /\ op = "init"
    /\ ret = [kind |-> "None"]
    /\ got = <<>>
    /\ pre = NoSession
    /\ last_valid = [prog_code |-> None, part_number |-> None]

\* The device writes a chunk to the line.
DeviceSends(chunk) ==
    /\ is_open
    /\ Len(rx) + Len(chunk) <= MaxRx
    /\ rx' = rx \o chunk
    /\ UNCHANGED <<is_open, device_state, prog_state, part_number, op, ret,
                   got, pre, last_valid>>

\* The port is closed (Serial.close, or the adapter is unplugged).
PortClose ==
    /\ is_open
    /\ is_open' = FALSE
    /\ rx' = <<>>
    /\ op' = "close"
    /\ UNCHANGED <<device_state, prog_state, part_number, ret, got, pre,
                   last_valid>>

\* The port is opened again (Serial.open).
PortOpen ==
    /\ ~is_open
    /\ is_open' = TRUE
    /\ op' = "open"
    /\ UNCHANGED <<rx, device_state, prog_state, part_number, ret, got, pre,
                   last_valid>>

\* read_response on a closed port.
ReadClosed ==
    /\ ~is_open
    /\ LET s == on_closed(on_entry(Session))
       IN /\ device_state' = s.device_state
          /\ prog_state' = s.prog_state
          /\ part_number' = s.part_number
    /\ op' = "read_response"
    /\ ret' = [kind |-> "None"]
    /\ got' = <<>>
    /\ pre' = Before
    /\ UNCHANGED <<is_open, rx, last_valid>>

\* read_response on an open port, arriving being what the device sends
\* while read(size=19) waits for its 19 bytes.
ReadWith(arriving) ==
    /\ is_open
    /\ \E r \in {read_19(rx, arriving)} :
           /\ rx' = r.rest
           /\ got' = r.buff
           /\ \E out \in {read_outcome(Session, r.buff)} :
                  /\ device_state' = out.s.device_state
                  /\ prog_state' = out.s.prog_state
                  /\ part_number' = out.s.part_number
                  /\ ret' = out.ret
                  /\ last_valid' =
                         IF out.ret.kind = "data"
                             THEN [prog_code |-> out.ret.data.prog_code,
                                   part_number |-> out.ret.data.part_number]
                         ELSE last_valid
    /\ op' = "read_response"
    /\ pre' = Before
    /\ UNCHANGED is_open

\* read_response on an open port.  When nothing is waiting read(size=19)
\* blocks up to the timeout and returns what arrives meanwhile (arriving,
\* possibly nothing); bytes that are waiting are returned as they are, the
\* device's later bytes being those of DeviceSends.
ReadOpen(arriving) ==
    /\ (Len(rx) > 0 /\ Len(rx) <= 19) => arriving = <<>>
    /\ ReadWith(arriving)

-----------------------------------------------------------------------------
(* The commands of the session: Zketech.send_request .. calibrate_current   *)
(*                                                                          *)
(* A float argument (amperes, volts, watts) is held as its number of        *)
(* thousandths: 1001 is the double nearest 1.001.  An int argument          *)
(* (duration, cell count, the resistance current in mA) is held as it is.   *)
(* A command is an operator on the fields s of the session and the state    *)
(* of the port; it gives the fields afterwards, how the call ended, the     *)
(* frames written, whether the input buffer was discarded, and for a        *)
(* command that reads, the buffer read, what the read made of it and what   *)
(* it left waiting.                                                         *)

ProgState ==
    [d_cc |-> 0, d_cp |-> 1, c_nimh |-> 2, c_nicd |-> 3, c_liion |-> 4,
     c_life |-> 5, c_vrla |-> 6, c_cv |-> 7]

\* The products x * scale of the model's float arguments that the double
\* arithmetic leaves just below the integer they equal in the rationals:
\* 1.001 * 1000 is 1000.9999999999999 and 0.29 * 100 is 28.999999999999996.
ShortProducts == {<<1001, 1000>>, <<290, 100>>}

\* int(x * scale) for the float x (in thousandths) and scale 10, 100, 1000:
\* the double product, truncated toward zero; x is never negative here.
int_scaled(x, scale) ==
    IF <<x, scale>> \in ShortProducts THEN (x * scale) \div 1000 - 1
    ELSE (x * scale) \div 1000

\* The quotients c / (p1 / 1000) of the model's capacities and currents
\* that the double arithmetic leaves just below their integer value:
\* 7 / (35 / 1000) is 199.99999999999997.
ShortQuotients == {<<7, 35>>}

\* int(res.c / (p1 / 1000)), for p1 > 0
int_quotient(c, p1) ==
    IF <<c, p1>> \in ShortQuotients THEN (c * 1000) \div p1 - 1
    ELSE (c * 1000) \div p1

\* The call returns None having written nothing.
Returns(s) ==
    [s |-> s, ret |-> [kind |-> "None"], tx |-> <<>>, flushed |-> FALSE,
     got |-> <<>>, rest |-> <<>>, read |-> [kind |-> "None"],
     arrived |-> <<>>]

\* The call ends in the exception exc having written nothing.
Raises(s, exc) ==
    [s |-> s, ret |-> [kind |-> "raise", exc |-> exc], tx |-> <<>>,
     flushed |-> FALSE, got |-> <<>>, rest |-> <<>>,
     read |-> [kind |-> "None"], arrived |-> <<>>]

\* raise ZketechParametersError("..."): ZketechParametersError is defined
\* with def, so the call returns None, and raising None is a TypeError.
ParametersError(s) == Raises(s, "TypeError")

\* send_request without its test of the port.
send_request_no_open_check(s, open, req_code, p1, p2, p3) ==
    LET e == encode(req_code, p1, p2, p3)
    IN IF e.kind = "raise" THEN Raises(s, e.exc)
       ELSE [Returns(s) EXCEPT
                !.tx = IF e.buff # <<>> THEN <<e.buff>> ELSE <<>>]

\* Zketech.send_request
send_request(s, open, req_code, p1, p2, p3) ==
    IF ~open THEN Returns([s EXCEPT !.device_state = "disconnected"])
    ELSE LET e == encode(req_code, p1, p2, p3)
         IN IF e.kind = "raise" THEN Raises(s, e.exc)
            ELSE [Returns(s) EXCEPT
                     !.tx = IF e.buff # <<>> THEN <<e.buff>> ELSE <<>>]

\* self.reset_input_buffer() after the steps that gave out: Serial raises
\* PortNotOpenError on a closed port.
reset_input_buffer(out, open) ==
    IF out.ret.kind = "raise" THEN out
    ELSE IF ~open
        THEN [out EXCEPT !.ret = [kind |-> "raise",
                                  exc |-> "PortNotOpenError"]]
    ELSE [out EXCEPT !.flushed = TRUE]

\* start_device taking the device to be started once the request is sent.
start_device_optimistic(s, open) ==
    IF s.device_state # "idle" THEN Returns(s)
    ELSE LET sent == send_request(s, open, "start_device", 0, 0, 0)
         IN IF sent.tx = <<>> THEN sent
            ELSE [sent EXCEPT !.s.device_state = "monitoring"]

\* Zketech.start_device
start_device(s, open) ==
    IF s.device_state # "idle" THEN Returns(s)
    ELSE send_request(s, open, "start_device", 0, 0, 0)

\* Zketech.stop_device
stop_device(s, open) ==
    IF s.device_state # "monitoring" THEN Returns(s)
    ELSE send_request(s, open, "stop_device", 0, 0, 0)

\* stop_test without its check of the state.
stop_test_unguarded(s, open) == send_request(s, open, "stop_test", 0, 0, 0)

\* Zketech.stop_test
stop_test(s, open) ==
    IF s.device_state # "testing" THEN Returns(s)
    ELSE send_request(s, open, "stop_test", 0, 0, 0)

\* continue_test implemented as the resumption of a constant current
\* discharge.
continue_test_sends(s, open) == send_request(s, open, "conti_d_cc", 0, 0, 0)

\* Zketech.continue_test
continue_test(s, open) == Raises(s, "NotImplementedError")

\* Zketech.update_test
update_test(s, open) == Raises(s, "NotImplementedError")

\* Zketech.discharge_cc
discharge_cc(s, open, current, cutoff_voltage, max_duration) ==
    IF s.device_state # "monitoring" THEN Returns(s)
    ELSE IF current < 0 THEN ParametersError(s)
    ELSE IF cutoff_voltage < 0 THEN ParametersError(s)
    ELSE IF max_duration < 0 THEN ParametersError(s)
    ELSE IF max_duration > 999 THEN ParametersError(s)
    ELSE send_request(s, open, "start_d_cc", int_scaled(current, 1000),
                      int_scaled(cutoff_voltage, 100), max_duration)

\* Zketech.discharge_cp
discharge_cp(s, open, power, cutoff_voltage, max_duration) ==
    IF s.device_state # "monitoring" THEN Returns(s)
    ELSE IF power < 0 THEN ParametersError(s)
    ELSE IF cutoff_voltage < 0 THEN ParametersError(s)
    ELSE IF max_duration < 0 THEN ParametersError(s)
    ELSE IF max_duration > 999 THEN ParametersError(s)
    ELSE send_request(s, open, "start_d_cp", int_scaled(power, 10),
                      int_scaled(cutoff_voltage, 100), max_duration)

\* _charge_generic with the upper bound of the duration forgotten.
charge_generic_unbounded(s, open, req_code, current, nb_cells, max_duration) ==
    IF s.device_state # "monitoring" THEN Returns(s)
    ELSE IF current < 0 THEN ParametersError(s)
    ELSE IF nb_cells < 1 THEN ParametersError(s)
    ELSE IF max_duration < 0 THEN ParametersError(s)
    ELSE send_request(s, open, req_code, int_scaled(current, 1000),
                      nb_cells, max_duration)

\* Zketech._charge_generic
charge_generic(s, open, req_code, current, nb_cells, max_duration) ==
    IF s.device_state # "monitoring" THEN Returns(s)
    ELSE IF current < 0 THEN ParametersError(s)
    ELSE IF nb_cells < 1 THEN ParametersError(s)
    ELSE IF max_duration < 0 THEN ParametersError(s)
    ELSE IF max_duration > 999 THEN ParametersError(s)
    ELSE send_request(s, open, req_code, int_scaled(current, 1000),
                      nb_cells, max_duration)

\* Zketech.charge_nimh .. charge_cv
charge_nimh(s, open, current, nb_cells, max_duration) ==
    charge_generic(s, open, "start_c_nimh", current, nb_cells, max_duration)

charge_nicd(s, open, current, nb_cells, max_duration) ==
    charge_generic(s, open, "start_c_nicd", current, nb_cells, max_duration)

charge_liion(s, open, current, nb_cells, max_duration) ==
    charge_generic(s, open, "start_c_liion", current, nb_cells, max_duration)

charge_life(s, open, current, nb_cells, max_duration) ==
    charge_generic(s, open, "start_c_life", current, nb_cells, max_duration)

charge_vrla(s, open, current, nb_cells, max_duration) ==
    charge_generic(s, open, "start_c_vrla", current, nb_cells, max_duration)

charge_cv(s, open, current, nb_cells, max_duration) ==
    charge_generic(s, open, "start_c_cv", current, nb_cells, max_duration)

\* measure_resistance without the discarding of the input buffer.
measure_resistance_no_reset(s, open, current, waiting, arriving) ==
    IF s.device_state # "monitoring" THEN Returns(s)
    ELSE IF current < 0 THEN ParametersError(s)
    ELSE IF current > 30000 THEN ParametersError(s)
    ELSE LET p1 == current
             sent == send_request(s, open, "mes_resistance", p1, 0, 0)
             r == read_19(waiting, arriving)
             read == read_outcome(sent.s, r.buff)
             after == [sent EXCEPT
                          !.s = read.s, !.got = r.buff, !.read = read.ret,
                          !.rest = r.rest, !.arrived = arriving]
         IN IF ~open THEN sent
            ELSE IF read.ret.kind # "data" THEN [after EXCEPT !.ret = read.ret]
            ELSE IF p1 = 0
                THEN [after EXCEPT !.ret = [kind |-> "raise",
                                            exc |-> "ZeroDivisionError"]]
            ELSE [after EXCEPT
                     !.ret = [kind |-> "value",
                              value |-> int_quotient(read.ret.data.c, p1)]]

\* Zketech.measure_resistance, waiting being the input buffer at the call
\* and arriving what the device sends before the read returns.
measure_resistance(s, open, current, waiting, arriving) ==
    IF s.device_state # "monitoring" THEN Returns(s)
    ELSE IF current < 0 THEN ParametersError(s)
    ELSE IF current > 30000 THEN ParametersError(s)
    ELSE LET p1 == current
             sent == reset_input_buffer(
                         send_request(s, open, "mes_resistance", p1, 0, 0),
                         open)
             r == read_19(IF sent.flushed THEN <<>> ELSE waiting, arriving)
             read == read_outcome(sent.s, r.buff)
             after == [sent EXCEPT
                          !.s = read.s, !.got = r.buff, !.read = read.ret,
                          !.rest = r.rest, !.arrived = arriving]
         IN IF sent.ret.kind = "raise" THEN sent
            ELSE IF read.ret.kind = "raise"
                THEN [after EXCEPT !.ret = read.ret]
            ELSE IF read.ret.kind = "None" THEN after
            ELSE IF p1 = 0
                THEN [after EXCEPT !.ret = [kind |-> "raise",
                                            exc |-> "ZeroDivisionError"]]
            ELSE [after EXCEPT
                     !.ret = [kind |-> "value",
                              value |-> int_quotient(read.ret.data.c, p1)]]

\* Zketech.calibrate_voltage
calibrate_voltage(s, open, voltage, level) ==
    IF s.device_state # "monitoring" THEN Returns(s)
    ELSE IF voltage < 0 THEN ParametersError(s)
    ELSE IF level \notin {"lower", "upper"} THEN ParametersError(s)
    ELSE LET raw == int_scaled(voltage, 1000)
             p1 == raw \div 240 + (IF level = "lower" THEN 240 * 0 ELSE 0)
                       + (IF level = "upper" THEN 240 * 1 ELSE 0)
             p2 == (raw % 240) * 240
         IN reset_input_buffer(
                send_request(s, open, "calibrate", p1, p2, 0), open)

\* Zketech.calibrate_current
calibrate_current(s, open, current, level) ==
    IF s.device_state # "testing" \/ s.prog_state # ProgState.d_cc
        THEN Returns(s)
    ELSE IF current < 0 THEN ParametersError(s)
    ELSE IF level \notin {"lower", "upper"} THEN ParametersError(s)
    ELSE LET raw == int_scaled(current, 1000)
             p1 == raw \div 240 + (IF level = "lower" THEN 240 * 2 ELSE 0)
                       + (IF level = "upper" THEN 240 * 3 ELSE 0)
             p2 == (raw % 240) * 240
         IN reset_input_buffer(
                send_request(s, open, "calibrate", p1, p2, 0), open)

\* The arguments the commands are called with.  Discharges: current or
\* power, cut-off voltage, duration; charges: current, cells, duration;
\* calibrations: reference value, level; resistance: current in mA.
DischargeArgs ==
    {<<1000, 3000, 0>>, <<1001, 290, 999>>, <<60000, 3000, 0>>,
     <<-1, 3000, 0>>, <<1000, -1, 0>>, <<1000, 3000, -1>>,
     <<1000, 3000, 1000>>}
ChargeArgs ==
    {<<1000, 1, 0>>, <<1001, 2, 999>>, <<60000, 1, 0>>, <<-1, 1, 0>>,
     <<1000, 0, 0>>, <<1000, 1, -1>>, <<1000, 1, 1000>>, <<1000, 57601, 0>>}
CalibrationArgs ==
    {<<1000, "lower">>, <<1000, "upper">>, <<1001, "lower">>,
     <<57599, "upper">>, <<60000, "lower">>, <<-1, "lower">>,
     <<1000, "middle">>}
ResistanceCurrents == {-1, 0, 35, 1000, 30000, 30001}

\* The response frames the device sends while commands are called: an
\* ended, a testing constant current discharge and a testing constant
\* voltage charge response, and a frame whose checksum byte is wrong.
CmdFrames ==
    {ResponseFixture(0, 1000, 500, 5), ResponseFixture(10, 1000, 7, 5),
     ResponseFixture(17, 1060, 500, 19),
     [ResponseFixture(10, 1000, 500, 5) EXCEPT ![18] = 239]}

\* What can arrive while a read waits: one of these, or a well-formed
\* ten-byte frame.
CmdChunks == CmdFrames \cup {<<250, 5, 0, 0, 0, 0, 0, 0, 5, 248>>}

NoCall == [name |-> "none", a |-> 0, b |-> 0, c |-> 0, level |-> ""]

NoFields ==
    [device_state |-> "disconnected", prog_state |-> None,
     part_number |-> None]

CommandInit ==
    /\ cmd = NoCall
    /\ cmd_pre = NoFields
    /\ tx = <<>>
    /\ flushed = FALSE
    /\ rx_pre = <<>>
    /\ arrived = <<>>
    /\ rx_left = <<>>

\* An operation that is not a command: no call is on record after it.
ClearCall ==
    /\ cmd' = NoCall
    /\ cmd_pre' = NoFields
    /\ tx' = <<>>
    /\ flushed' = FALSE
    /\ rx_pre' = <<>>
    /\ arrived' = <<>>
    /\ rx_left' = <<>>

\* A read attempt on record: the input buffer before it and what arrived
\* while it read.
RecordRead(arriving) ==
    /\ cmd' = NoCall
    /\ cmd_pre' = Session
    /\ tx' = <<>>
    /\ flushed' = FALSE
    /\ rx_pre' = rx
    /\ arrived' = arriving
    /\ rx_left' = rx'

\* The command name is called with the arguments a, b, c, level and ends
\* as out says.
Call(name, a, b, c, level, out) ==
    /\ cmd' = [name |-> name, a |-> a, b |-> b, c |-> c, level |-> level]
    /\ cmd_pre' = Session
    /\ tx' = out.tx
    /\ flushed' = out.flushed
    /\ device_state' = out.s.device_state
    /\ prog_state' = out.s.prog_state
    /\ part_number' = out.s.part_number
    /\ rx' = IF out.flushed \/ out.got # <<>> THEN out.rest ELSE rx
    /\ op' = name
    /\ ret' = out.ret
    /\ got' = out.got
    /\ rx_pre' = rx
    /\ arrived' = out.arrived
    /\ rx_left' = rx'
    /\ pre' = Before
    /\ last_valid' =
           IF out.read.kind = "data"
               THEN [prog_code |-> out.read.data.prog_code,
                     part_number |-> out.read.data.part_number]
           ELSE last_valid
    /\ UNCHANGED is_open

StartDevice ==
    \E out \in {start_device(Session, is_open)} :
        Call("start_device", 0, 0, 0, "", out)

StopDevice ==
    \E out \in {stop_device(Session, is_open)} :
        Call("stop_device", 0, 0, 0, "", out)

StopTest ==
    \E out \in {stop_test(Session, is_open)} :
        Call("stop_test", 0, 0, 0, "", out)

ContinueTest ==
    \E out \in {continue_test(Session, is_open)} :
        Call("continue_test", 0, 0, 0, "", out)

UpdateTest ==
    \E out \in {update_test(Session, is_open)} :
        Call("update_test", 0, 0, 0, "", out)

DischargeCc(p) ==
    \E out \in {discharge_cc(Session, is_open, p[1], p[2], p[3])} :
        Call("discharge_cc", p[1], p[2], p[3], "", out)

DischargeCp(p) ==
    \E out \in {discharge_cp(Session, is_open, p[1], p[2], p[3])} :
        Call("discharge_cp", p[1], p[2], p[3], "", out)

ChargeNimh(p) ==
    \E out \in {charge_nimh(Session, is_open, p[1], p[2], p[3])} :
        Call("charge_nimh", p[1], p[2], p[3], "", out)

ChargeNicd(p) ==
    \E out \in {charge_nicd(Session, is_open, p[1], p[2], p[3])} :
        Call("charge_nicd", p[1], p[2], p[3], "", out)

ChargeLiion(p) ==
    \E out \in {charge_liion(Session, is_open, p[1], p[2], p[3])} :
        Call("charge_liion", p[1], p[2], p[3], "", out)

ChargeLife(p) ==
    \E out \in {charge_life(Session, is_open, p[1], p[2], p[3])} :
        Call("charge_life", p[1], p[2], p[3], "", out)

ChargeVrla(p) ==
    \E out \in {charge_vrla(Session, is_open, p[1], p[2], p[3])} :
        Call("charge_vrla", p[1], p[2], p[3], "", out)

ChargeCv(p) ==
    \E out \in {charge_cv(Session, is_open, p[1], p[2], p[3])} :
        Call("charge_cv", p[1], p[2], p[3], "", out)

MeasureResistance(current, arriving) ==
    \E out \in {measure_resistance(Session, is_open, current, rx, arriving)} :
        Call("measure_resistance", current, 0, 0, "", out)

CalibrateVoltage(p) ==
    \E out \in {calibrate_voltage(Session, is_open, p[1], p[2])} :
        Call("calibrate_voltage", p[1], 0, 0, p[2], out)

CalibrateCurrent(p) ==
    \E out \in {calibrate_current(Session, is_open, p[1], p[2])} :
        Call("calibrate_current", p[1], 0, 0, p[2], out)

\* The menu entries of cmd_control that make one call of the device; the
\* polling entries are loop_body, and EvaluateDevice is a read attempt.
MenuEntries ==
    {"StopDevice", "StartDevice", "StopTest", "ConstantCurrentDischarge",
     "ConstantPowerDischarge", "NimhCharge", "NicdCharge", "LiionCharge",
     "LifeCharge", "VrlaCharge", "CvCharge", "ResistanceMeasurement",
     "LowVoltageCalibration", "HighVoltageCalibration",
     "LowCurrentCalibration", "HighCurrentCalibration"}

\* What the user types at the prompts of an entry, parsed: floats in
\* thousandths, integers as they are.  Entries with fewer prompts use the
\* first values only.
MenuArgs == {<<1000, 3000, 0>>, <<10000, 2, 30>>, <<35, 1, 0>>}

\* choice_made(zk, sw): the entry's __init__ with the parsed inputs a, b, c.
\* Building the log line comes before the device call: ConstantPowerDischarge
\* formats self.current, which it never set, and the current calibrations
\* format voltage, a name they never bound.  The value the device call returns
\* is dropped; an exception goes up to the menu loop.
choice_made(entry, s, open, a, b, c, waiting, arriving) ==
    LET out ==
            CASE entry = "StartDevice" -> start_device(s, open)
              [] entry = "StopDevice" -> stop_device(s, open)
              [] entry = "StopTest" -> stop_test(s, open)
              [] entry = "ConstantCurrentDischarge" ->
                     discharge_cc(s, open, a, b, c)
              [] entry = "ConstantPowerDischarge" ->
                     Raises(s, "AttributeError")
              [] entry = "NimhCharge" -> charge_nimh(s, open, a, b, c)
              [] entry = "NicdCharge" -> charge_nicd(s, open, a, b, c)
              [] entry = "LiionCharge" -> charge_liion(s, open, a, b, c)
              [] entry = "LifeCharge" -> charge_life(s, open, a, b, c)
              [] entry = "VrlaCharge" -> charge_vrla(s, open, a, b, c)
              [] entry = "CvCharge" -> charge_cv(s, open, a, b, c)
              [] entry = "ResistanceMeasurement" ->
                     measure_resistance(s, open, a, waiting, arriving)
              [] entry = "LowVoltageCalibration" ->
                     calibrate_voltage(s, open, a, "lower")
              [] entry = "HighVoltageCalibration" ->
                     calibrate_voltage(s, open, a, "upper")
              [] entry = "LowCurrentCalibration" -> Raises(s, "NameError")
              [] entry = "HighCurrentCalibration" -> Raises(s, "NameError")
    IN IF out.ret.kind = "raise" THEN out
       ELSE [out EXCEPT !.ret = [kind |-> "None"]]

\* The user picks the entry and types p at its prompts.
MenuChoice(entry, p, arriving) ==
    \E out \in {choice_made(entry, Session, is_open, p[1], p[2], p[3], rx,
                            arriving)} :
        Call(entry, p[1], p[2], p[3], "", out)

-----------------------------------------------------------------------------
(* The safety watcher: SafetyWatcher *)

\* Python's truth value of a float or None: None and 0.0 are false.
Truthy(x) == x # None /\ x # 0

Min(a, b) == IF a <= b THEN a ELSE b

\* update without its return on empty minima: the first sample seeds.
update_seeding(w, resp) ==
    LET w1 == IF resp.state_code # StateCode.testing
                  THEN [w EXCEPT !.min_voltage = None, !.min_current = None]
              ELSE w
        w2 == [w1 EXCEPT !.last_voltage = resp.u, !.last_current = resp.i]
    IN IF ~(Truthy(w2.min_voltage) /\ Truthy(w2.min_current))
           THEN [w |-> [w2 EXCEPT !.min_voltage = w2.last_voltage,
                                  !.min_current = w2.last_current],
                 ret |-> "False"]
       ELSE [w |-> [w2 EXCEPT
                       !.min_voltage = Min(w2.min_voltage, w2.last_voltage),
                       !.min_current = Min(w2.min_current, w2.last_current)],
             ret |-> "None"]

\* SafetyWatcher.update(resp) on the watcher's fields w: the fields
\* afterwards and the value returned.
update(w, resp) ==
    LET w1 == IF resp.state_code # StateCode.testing
                  THEN [w EXCEPT !.min_voltage = None, !.min_current = None]
              ELSE w
    IN IF ~Truthy(w1.min_voltage) \/ ~Truthy(w1.min_current)
           THEN [w |-> w1, ret |-> "None"]
       ELSE LET w2 == [w1 EXCEPT !.last_voltage = resp.u,
                                 !.last_current = resp.i]
            IN IF ~(Truthy(w2.min_voltage) /\ Truthy(w2.min_current))
                   THEN [w |-> [w2 EXCEPT !.min_voltage = w2.last_voltage,
                                          !.min_current = w2.last_current],
                         ret |-> "False"]
               ELSE [w |-> [w2 EXCEPT
                               !.min_voltage = Min(w2.min_voltage,
                                                   w2.last_voltage),
                               !.min_current = Min(w2.min_current,
                                                   w2.last_current)],
                     ret |-> "None"]

\* SafetyWatcher.check_charging_current_increase; 0.05 A is 50 mA.
check_charging_current_increase(w) ==
    IF ~Truthy(w.last_current) THEN "None"
    ELSE IF ~Truthy(w.min_current) THEN "None"
    ELSE IF w.last_current > w.min_current + 50 THEN "True"
    ELSE "False"

\* SafetyWatcher.check
check(w) == check_charging_current_increase(w) = "True"

Watcher ==
    [min_voltage |-> min_voltage, min_current |-> min_current,
     last_voltage |-> last_voltage, last_current |-> last_current]

\* The responses the watcher is shown: testing or ended, raw current in mA,
\* raw voltage in mV.
WatcherResponses ==
    [state_code : {StateCode.testing, StateCode.ended},
     i : {0, 1000, 1060}, u : {0, 4200}]

\* SafetyWatcher(): the class defaults.
WatcherInit ==
    /\ min_voltage = None
    /\ min_current = None
    /\ last_voltage = None
    /\ last_current = None
    /\ samples = <<>>
    /\ sw_ret = "None"
    /\ sw_check = "pending"
    /\ loop = "none"

\* sw.update(resp)
SwUpdate(resp) ==
    /\ Len(samples) < MaxSamples
    /\ LET out == update(Watcher, resp)
       IN /\ min_voltage' = out.w.min_voltage
          /\ min_current' = out.w.min_current
          /\ last_voltage' = out.w.last_voltage
          /\ last_current' = out.w.last_current
          /\ sw_ret' = out.ret
    /\ samples' = Append(samples, resp)
    /\ sw_check' = "pending"
    /\ UNCHANGED loop

\* sw.check()
SwCheck ==
    /\ sw_check = "pending"
    /\ Len(samples) > 0
    /\ sw_check' = IF check(Watcher) THEN "True" ELSE "False"
    /\ UNCHANGED <<min_voltage, min_current, last_voltage, last_current,
                   samples, sw_ret, loop>>

-----------------------------------------------------------------------------
(* The polling programs: ContinuousRead, ContinuousReadDuringTest *)

BLOCKING_SAFETY_WATCHER == TRUE

PollingPrograms == {"ContinuousRead", "ContinuousReadDuringTest"}

\* The device states on which the loop of a program returns.
ExitStates(program) ==
    IF program = "ContinuousRead" THEN {"disconnected", "idle"}
    ELSE {"disconnected", "idle", "monitoring"}

\* One iteration of the while loop of a polling program on the session
\* fields s and the watcher fields w, read(size=19) returning buff on an
\* open port: the fields afterwards, what read_response gave, whether
\* sw.update was called, what it and sw.check() returned, the frames
\* written and how the loop goes on (an exception of read_response leaves
\* the loop and the program).
loop_body(program, s, open, w, buff) ==
    LET read == IF ~open
                    THEN [s |-> on_closed(on_entry(s)),
                          ret |-> [kind |-> "None"]]
                ELSE read_outcome(s, buff)
        quiet == [s |-> read.s, w |-> w, read |-> read.ret,
                  updated |-> FALSE, sw_ret |-> "None", sw_check |-> "pending",
                  tx |-> <<>>, next |-> program]
    IN IF read.ret.kind = "raise" THEN [quiet EXCEPT !.next = "raised"]
       ELSE IF read.s.device_state \in ExitStates(program)
           THEN [quiet EXCEPT !.next = "returned"]
       ELSE IF read.ret.kind # "data" THEN quiet
       ELSE LET resp == [state_code |-> read.ret.data.state_code,
                         i |-> read.ret.data.i, u |-> read.ret.data.u]
                upd == update(w, resp)
                stop == IF check(upd.w) /\ BLOCKING_SAFETY_WATCHER
                            THEN stop_test(read.s, open)
                        ELSE Returns(read.s)
            IN [s |-> stop.s, w |-> upd.w, read |-> read.ret,
                updated |-> TRUE, sw_ret |-> upd.ret,
                sw_check |-> IF check(upd.w) THEN "True" ELSE "False",
                tx |-> stop.tx, next |-> program]

\* What arrives during a poll: testing responses of 1.00 A and 1.06 A, an
\* ended and an ending response, a frame whose checksum byte is wrong, a
\* well-formed ten-byte frame, or nothing.
PollFrames ==
    {ResponseFixture(10, 1000, 500, 5), ResponseFixture(10, 1060, 500, 5),
     ResponseFixture(0, 1000, 500, 5), ResponseFixture(20, 1000, 500, 5),
     [ResponseFixture(10, 1000, 500, 5) EXCEPT ![18] = 239],
     <<250, 5, 0, 0, 0, 0, 0, 0, 5, 248>>, <<>>}

\* The user picks a polling program in the menu.
StartPolling(program) ==
    /\ loop \in {"none", "returned"}
    /\ loop' = program
    /\ op' = "menu"
    /\ UNCHANGED <<min_voltage, min_current, last_voltage, last_current,
                   samples, sw_ret, sw_check>>
    /\ UNCHANGED <<is_open, rx, device_state, prog_state, part_number, ret,
                   got, pre, last_valid>>

\* One iteration of the running program's loop.
Poll(arriving) ==
    /\ loop \in PollingPrograms
    /\ Len(samples) < MaxSamples
    /\ \E r \in {read_19(rx, IF is_open THEN arriving ELSE <<>>)} :
       \E out \in {loop_body(loop, Session, is_open, Watcher,
                              IF is_open THEN r.buff ELSE <<>>)} :
           /\ rx' = IF is_open THEN r.rest ELSE rx
           /\ got' = IF is_open THEN r.buff ELSE <<>>
           /\ device_state' = out.s.device_state
           /\ prog_state' = out.s.prog_state
           /\ part_number' = out.s.part_number
           /\ ret' = out.read
           /\ last_valid' =
                  IF out.read.kind = "data"
                      THEN [prog_code |-> out.read.data.prog_code,
                            part_number |-> out.read.data.part_number]
                  ELSE last_valid
           /\ min_voltage' = out.w.min_voltage
           /\ min_current' = out.w.min_current
           /\ last_voltage' = out.w.last_voltage
           /\ last_current' = out.w.last_current
           /\ samples' =
                  IF out.updated
                      THEN Append(samples,
                                  [state_code |-> out.read.data.state_code,
                                   i |-> out.read.data.i,
                                   u |-> out.read.data.u])
                  ELSE samples
           /\ sw_ret' = IF out.updated THEN out.sw_ret ELSE sw_ret
           /\ sw_check' = IF out.updated THEN out.sw_check ELSE sw_check
           /\ tx' = out.tx
           /\ loop' = out.next
    /\ op' = loop
    /\ pre' = Before
    /\ cmd' = NoCall
    /\ cmd_pre' = Session
    /\ flushed' = FALSE
    /\ rx_pre' = rx
    /\ arrived' = IF is_open THEN arriving ELSE <<>>
    /\ rx_left' = rx'
    /\ UNCHANGED is_open

-----------------------------------------------------------------------------
(* Specifications *)

Init == CodecStart(<<>>) /\ SessionInit /\ WatcherInit /\ CommandInit

\* The bench starts with a frame received from the device.
CodecInit ==
    /\ \E b \in Fixtures : CodecStart(b)
    /\ SessionInit
    /\ WatcherInit
    /\ CommandInit

\* The codec bench.
CodecNext ==
    \/ \E rc \in ReqCodeNames, p \in ParamTriples :
           Encode(rc, p)
           /\ UNCHANGED <<session_vars, watcher_vars, command_vars>>
    \/ Decode
           /\ UNCHANGED <<session_vars, watcher_vars, command_vars>>
    \/ \E k \in 0..18, v \in EditValues :
           Replace(k, v)
           /\ UNCHANGED <<session_vars, watcher_vars, command_vars>>
    \/ \E n \in TruncatedLengths :
           Truncate(n)
           /\ UNCHANGED <<session_vars, watcher_vars, command_vars>>

SpecCodec == CodecInit /\ [][CodecNext]_vars

\* The bench starts with a frame carrying one value in one field, and
\* decodes it.
RoundTripInit ==
    /\ \E k \in 1..7, v \in RoundTripValues :
           /\ c_req = NoReq
           /\ c_enc = Pending
           /\ c_buff = FieldFixture(FieldNames[k], v)
           /\ c_dec = Pending
           /\ c_base = <<>>
           /\ c_base_dec = Pending
           /\ c_pos = -1
           /\ c_edits = 0
           /\ c_fix = [field |-> FieldNames[k], v |-> v]
    /\ SessionInit
    /\ WatcherInit
    /\ CommandInit

RoundTripNext ==
    Decode /\ UNCHANGED <<session_vars, watcher_vars, command_vars>>

SpecRoundTrip == RoundTripInit /\ [][RoundTripNext]_vars

\* The session reading what the device sends.
Next ==
    \/ \E chunk \in RxChunks :
           DeviceSends(chunk) /\ UNCHANGED <<codec_vars, watcher_vars, command_vars>>
    \/ PortClose /\ UNCHANGED <<codec_vars, watcher_vars, command_vars>>
    \/ PortOpen /\ UNCHANGED <<codec_vars, watcher_vars, command_vars>>
    \/ ReadClosed /\ UNCHANGED <<codec_vars, watcher_vars, command_vars>>
    \/ \E arriving \in RxChunks \cup {<<>>} :
           ReadOpen(arriving) /\ UNCHANGED <<codec_vars, watcher_vars, command_vars>>

Spec == Init /\ [][Next]_vars

\* The safety watcher shown a sequence of responses.
WatcherNext ==
    \/ \E resp \in WatcherResponses :
           SwUpdate(resp) /\ UNCHANGED <<codec_vars, session_vars, command_vars>>
    \/ SwCheck /\ UNCHANGED <<codec_vars, session_vars, command_vars>>

SpecWatcher == Init /\ [][WatcherNext]_vars

\* The session reading what the device sends and sending it commands.
CommandNext ==
    \/ \E chunk \in CmdFrames :
           /\ DeviceSends(chunk)
           /\ UNCHANGED <<codec_vars, watcher_vars, command_vars>>
    \/ PortClose /\ ClearCall /\ UNCHANGED <<codec_vars, watcher_vars>>
    \/ PortOpen /\ ClearCall /\ UNCHANGED <<codec_vars, watcher_vars>>
    \/ ReadClosed /\ ClearCall /\ UNCHANGED <<codec_vars, watcher_vars>>
    \/ \E arriving \in CmdChunks \cup {<<>>} :
           /\ ReadOpen(arriving) /\ ClearCall
           /\ UNCHANGED <<codec_vars, watcher_vars>>
    \/ StartDevice /\ UNCHANGED <<codec_vars, watcher_vars>>
    \/ StopDevice /\ UNCHANGED <<codec_vars, watcher_vars>>
    \/ StopTest /\ UNCHANGED <<codec_vars, watcher_vars>>
    \/ ContinueTest /\ UNCHANGED <<codec_vars, watcher_vars>>
    \/ UpdateTest /\ UNCHANGED <<codec_vars, watcher_vars>>
    \/ \E p \in DischargeArgs :
           DischargeCc(p) /\ UNCHANGED <<codec_vars, watcher_vars>>
    \/ \E p \in DischargeArgs :
           DischargeCp(p) /\ UNCHANGED <<codec_vars, watcher_vars>>
    \/ \E p \in ChargeArgs :
           ChargeNimh(p) /\ UNCHANGED <<codec_vars, watcher_vars>>
    \/ \E p \in ChargeArgs :
           ChargeNicd(p) /\ UNCHANGED <<codec_vars, watcher_vars>>
    \/ \E p \in ChargeArgs :
           ChargeLiion(p) /\ UNCHANGED <<codec_vars, watcher_vars>>
    \/ \E p \in ChargeArgs :
           ChargeLife(p) /\ UNCHANGED <<codec_vars, watcher_vars>>
    \/ \E p \in ChargeArgs :
           ChargeVrla(p) /\ UNCHANGED <<codec_vars, watcher_vars>>
    \/ \E p \in ChargeArgs :
           ChargeCv(p) /\ UNCHANGED <<codec_vars, watcher_vars>>
    \/ \E current \in ResistanceCurrents, arriving \in CmdChunks \cup {<<>>} :
           /\ MeasureResistance(current, arriving)
           /\ UNCHANGED <<codec_vars, watcher_vars>>
    \/ \E p \in CalibrationArgs :
           CalibrateVoltage(p) /\ UNCHANGED <<codec_vars, watcher_vars>>
    \/ \E p \in CalibrationArgs :
           CalibrateCurrent(p) /\ UNCHANGED <<codec_vars, watcher_vars>>

SpecCommands == Init /\ [][CommandNext]_vars

\* The polling programs run on what the device sends.
PollingNext ==
    \/ \E program \in PollingPrograms :
           StartPolling(program) /\ UNCHANGED <<codec_vars, command_vars>>
    \/ \E arriving \in PollFrames : Poll(arriving) /\ UNCHANGED codec_vars
    \/ PortClose /\ UNCHANGED <<codec_vars, watcher_vars, command_vars>>
    \/ PortOpen /\ UNCHANGED <<codec_vars, watcher_vars, command_vars>>

SpecPolling == Init /\ [][PollingNext]_vars

\* What the device sends while the session is slow to read: a testing
\* response, the first twelve bytes of one, a ten-byte frame.
BacklogChunks ==
    {ResponseFixture(10, 1000, 500, 5),
     <<250, 10, 4, 40, 17, 120, 2, 20, 0, 0, 0, 0>>,
     <<250, 5, 0, 0, 0, 0, 0, 0, 5, 248>>}

\* The session reading an input buffer that fills up, each read attempt
\* being put on record.
BacklogNext ==
    \/ \E chunk \in BacklogChunks :
           DeviceSends(chunk)
           /\ UNCHANGED <<codec_vars, watcher_vars, command_vars>>
    \/ \E arriving \in {<<>>, ResponseFixture(0, 1000, 500, 5)} :
           /\ ReadOpen(arriving) /\ RecordRead(arriving)
           /\ UNCHANGED <<codec_vars, watcher_vars>>

SpecBacklog == Init /\ [][BacklogNext]_vars

\* The well-formed responses of a device that keeps sending: testing at
\* 1.00 A and 1.06 A, ended.
AlignFrames ==
    {ResponseFixture(10, 1000, 500, 5), ResponseFixture(10, 1060, 500, 5),
     ResponseFixture(0, 1000, 500, 5)}

\* The last k bytes of a frame.
LastBytes(frame, k) == SubSeq(frame, Len(frame) - k + 1, Len(frame))

\* The session is constructed while the device is sending: the input
\* buffer starts with the last bytes of a frame, fewer than 19.
AlignInit ==
    /\ CodecStart(<<>>)
    /\ WatcherInit
    /\ CommandInit
    /\ is_open = TRUE
    /\ \E frame \in AlignFrames, k \in 1..18 : rx = LastBytes(frame, k)
    /\ device_state = "idle"
    /\ prog_state = None
    /\ part_number = None
    /\ op = "init"
    /\ ret = [kind |-> "None"]
    /\ got = <<>>
    /\ pre = NoSession
    /\ last_valid = [prog_code |-> None, part_number |-> None]

\* The next frame arrives while nobody reads.
AlignSend ==
    \E frame \in AlignFrames :
        DeviceSends(frame)
        /\ UNCHANGED <<codec_vars, watcher_vars, command_vars>>

\* read_response is called, and the next frame arrives while read(size=19)
\* waits for its 19 bytes.
AlignRead ==
    \E frame \in AlignFrames :
        ReadWith(frame)
        /\ UNCHANGED <<codec_vars, watcher_vars, command_vars>>

AlignNext == AlignSend \/ AlignRead

\* The caller polls for ever: read_response is called again and again.
SpecAlign == AlignInit /\ [][AlignNext]_vars /\ WF_vars(AlignRead)

\* The text interface: the menu loop of cmd_control on an open port, the
\* device sending responses, EvaluateDevice reading them.
MenuNext ==
    \/ \E chunk \in CmdFrames :
           /\ DeviceSends(chunk)
           /\ UNCHANGED <<codec_vars, watcher_vars, command_vars>>
    \/ \E arriving \in CmdChunks \cup {<<>>} :
           /\ ReadOpen(arriving) /\ ClearCall
           /\ UNCHANGED <<codec_vars, watcher_vars>>
    \/ \E entry \in MenuEntries, p \in MenuArgs,
          arriving \in CmdChunks \cup {<<>>} :
           /\ entry # "ResistanceMeasurement" => arriving = <<>>
           /\ MenuChoice(entry, p, arriving)
           /\ UNCHANGED <<codec_vars, watcher_vars>>

SpecMenu == Init /\ [][MenuNext]_vars

-----------------------------------------------------------------------------
(* The frame format, stated from the protocol rather than from the code *)

\* The ten bytes of the request frame for a code and three parameters.
RequestLayout(code, p1, p2, p3) ==
    LET payload == <<code, p1 \div 240, p1 % 240, p2 \div 240, p2 % 240,
                     p3 \div 240, p3 % 240>>
    IN <<250>> \o payload \o <<reduce_xor(payload) % 240, 248>>

\* The six checks on a 19-byte buffer, in the order they are made.
CheckNames == <<"begin", "end", "checksum", "status", "program", "model">>

\* Whether the 19-byte buffer b passes check number k.
ResponseCheck(b, k) ==
    CASE k = 1 -> b[1] = 250
      [] k = 2 -> b[19] = 248
      [] k = 3 -> b[18] = reduce_xor(SubSeq(b, 2, 17)) % 240
      [] k = 4 -> (b[2] \div 10) \in {0, 1, 2, 10}
      [] k = 5 -> (b[2] % 10) \in 0..7
      [] k = 6 -> b[17] \in 1..19

ViolatedChecks(b) == {k \in 1..6 : ~ResponseCheck(b, k)}

WellFormedResponse(b) == Len(b) = 19 /\ ViolatedChecks(b) = {}

\* The name of the first check a 19-byte buffer violates.
FirstViolated(b) ==
    LET bad == ViolatedChecks(b)
    IN IF bad = {} THEN "none"
       ELSE CheckNames[CHOOSE k \in bad : \A j \in bad : k <= j]

\* A ten-byte buffer with markers, checksum and a known request code.
WellFormedRequest(b) ==
    /\ Len(b) = 10
    /\ b[1] = 250
    /\ b[10] = 248
    /\ b[9] = reduce_xor(SubSeq(b, 2, 8)) % 240
    /\ b[2] \in ReqCodeValues

-----------------------------------------------------------------------------
(* C1..C4: the codec (SpecCodec, C4 under Spec) *)

\* C1: for every request descriptor (any ReqCode, p1, p2, p3 each in
\* 0..57600) encoding never fails: it gives exactly the ten bytes
\* [250, code, p1 div 240, p1 mod 240, p2 div 240, p2 mod 240, p3 div 240,
\* p3 mod 240, checksum, 248], checksum being the XOR of bytes 1..7 mod 240,
\* and never the empty buffer.
C1_EncodeNeverFails ==
    (/\ c_req # NoReq
     /\ \A p \in {c_req.p1, c_req.p2, c_req.p3} : p \in 0..57600)
    => /\ c_enc.kind = "bytes"
       /\ c_enc.buff # <<>>
       /\ c_enc.buff = RequestLayout(ReqCode[c_req.req_code], c_req.p1,
                                     c_req.p2, c_req.p3)

\* A request at the upper bound of all three parameters has been encoded.
C1_Witness ==
    /\ c_req # NoReq
    /\ c_req.p1 = 57600 /\ c_req.p2 = 57600 /\ c_req.p3 = 57600
    /\ c_enc.kind = "bytes"
    /\ Len(c_enc.buff) = 10

\* C2: a 19-byte buffer is accepted if and only if its markers are 250 and
\* 248, its checksum byte is the XOR of bytes 1..16 mod 240, its status and
\* program are known and its model is known; the checks run in the order
\* length, begin marker, end marker, checksum, status, program, model, so a
\* rejected buffer is rejected for the first check it violates.
C2_DecodeValidity ==
    c_dec # Pending
    => /\ Len(c_buff) \notin {10, 19}
          => c_dec.kind = "None" /\ c_dec.warning = "length"
       /\ Len(c_buff) = 19
          => /\ c_dec.kind = "data" <=> WellFormedResponse(c_buff)
             /\ c_dec.kind # "data"
                => /\ c_dec.kind = "None"
                   /\ c_dec.warning = FirstViolated(c_buff)

\* A buffer that violates both the checksum and the status check has been
\* rejected.
C2_Witness ==
    /\ c_dec # Pending
    /\ Len(c_buff) = 19
    /\ c_dec.kind = "None"
    /\ ~ResponseCheck(c_buff, 3)
    /\ ~ResponseCheck(c_buff, 4)

\* C3 as stated: for every buffer that decodes successfully, replacing any
\* single payload byte (positions 1..16) by a different value makes decode
\* fail with a checksum mismatch.
C3_Original ==
    (c_base_dec.kind = "data" /\ c_pos \in 1..16 /\ c_dec # Pending)
    => c_dec.kind = "None" /\ c_dec.warning = "checksum"

\* The replacement keeps the checksum: old and new value differ in exactly
\* the four high bits, and the XOR of the payload is below 16 or at least
\* 240, so that it and its value after the replacement are equal mod 240.
KeepsChecksum ==
    /\ xor(Byte(c_base, c_pos), Byte(c_buff, c_pos)) = 240
    /\ \/ reduce_xor(SubSeq(c_base, 2, 17)) < 16
       \/ reduce_xor(SubSeq(c_base, 2, 17)) >= 240

\* C3 (amended): for every buffer that decodes successfully, replacing a
\* single payload byte by a different value makes decode fail with a
\* checksum mismatch, except when the replacement keeps the checksum (see
\* KeepsChecksum): then the checksum check passes.
C3_ChecksumProperty ==
    (c_base_dec.kind = "data" /\ c_pos \in 1..16 /\ c_dec # Pending)
    => ((c_dec.kind = "None" /\ c_dec.warning = "checksum")
            <=> ~KeepsChecksum)

\* A payload byte of a decoded buffer has been replaced and the decode has
\* failed with a checksum mismatch.
C3_Witness ==
    /\ c_base_dec.kind = "data"
    /\ c_pos \in 1..16
    /\ c_dec.kind = "None"
    /\ c_dec.warning = "checksum"

\* C4: decoding never raises: for every byte sequence the transport can
\* return, get_response_data_set and read_response end by returning a
\* response descriptor or no result.
C4_DecodingNeverRaises ==
    c_dec.kind # "raise" /\ ret.kind # "raise"

-----------------------------------------------------------------------------
(* C5, C6: the safety watcher (SpecWatcher) *)

\* The first of the testing responses the watcher has seen without
\* interruption up to the last one; 0 when the last one is not testing.
RECURSIVE ArmedSince(_)
ArmedSince(k) ==
    IF k = 0 \/ samples[k].state_code # StateCode.testing THEN k + 1
    ELSE ArmedSince(k - 1)

Armed ==
    Len(samples) > 0 /\ samples[Len(samples)].state_code = StateCode.testing

MinCurrentSinceArmed ==
    CHOOSE m \in {samples[k].i : k \in ArmedSince(Len(samples))..Len(samples)} :
        \A k \in ArmedSince(Len(samples))..Len(samples) : m <= samples[k].i

\* C5: the safety monitor signals an anomaly exactly when armed and the
\* last current exceeds the minimum current observed since it became armed
\* by more than 0.05 A (testing samples 1.00 A, 1.00 A, 1.06 A: no anomaly
\* after the second, anomaly after the third).
C5_AnomalyExactlyOnRise ==
    sw_check # "pending"
    => (sw_check = "True"
            <=> (/\ Armed
                 /\ samples[Len(samples)].i > MinCurrentSinceArmed + 50))

\* C6: on the first testing response after the monitor is created or after
\* any non-testing response, update seeds min_current and min_voltage (and
\* last_current, last_voltage) with that sample's values and the monitor
\* reports no anomaly.
C6_FirstSampleSeeds ==
    (Armed /\ ArmedSince(Len(samples)) = Len(samples))
    => /\ min_current = samples[Len(samples)].i
       /\ min_voltage = samples[Len(samples)].u
       /\ last_current = samples[Len(samples)].i
       /\ last_voltage = samples[Len(samples)].u
       /\ sw_check # "True"

-----------------------------------------------------------------------------
(* C7..C10: read attempts (Spec) *)

\* The last operation was a read attempt on an open port.
ReadOnOpenPort == op = "read_response" /\ pre.is_open

\* C7: after a read attempt on an open transport that returned a
\* structurally valid 19-byte response, device_state is testing if the
\* decoded status is testing, ending if it is ending and monitoring
\* otherwise, whatever the state before; prog_state and part_number are the
\* program and model of that response.
C7_StateFollowsResponse ==
    (ReadOnOpenPort /\ WellFormedResponse(got))
    => /\ device_state =
              IF got[2] \div 10 = 1 THEN "testing"
              ELSE IF got[2] \div 10 = 2 THEN "ending"
              ELSE "monitoring"
       /\ prog_state = got[2] % 10
       /\ part_number = got[17]

\* A session that was disconnected has read an ending response on the
\* reopened port.
C7_Witness ==
    /\ ReadOnOpenPort
    /\ WellFormedResponse(got)
    /\ pre.device_state = "disconnected"
    /\ got[2] \div 10 = 2
    /\ device_state = "ending"

\* C8: with the transport open, a read attempt that yields zero bytes sets
\* device_state to idle and returns no data without raising, whatever the
\* state before.
C8_EmptyReadIsIdle ==
    (ReadOnOpenPort /\ got = <<>>)
    => device_state = "idle" /\ ret.kind = "None"

\* A session that was testing has read nothing.
C8_Witness ==
    /\ ReadOnOpenPort
    /\ got = <<>>
    /\ pre.device_state = "testing"
    /\ device_state = "idle"

\* C9: a read attempt that returns a non-empty buffer the validity check
\* rejects leaves device_state and prog_state as they were before the read
\* and returns no response, without raising.
C9_InvalidFrameKeepsState ==
    (/\ ReadOnOpenPort
     /\ got # <<>>
     /\ ~WellFormedResponse(got)
     /\ ~WellFormedRequest(got))
    => /\ device_state = pre.device_state
       /\ prog_state = pre.prog_state
       /\ ret.kind = "None"

\* A session that was testing has read a rejected buffer.
C9_Witness ==
    /\ ReadOnOpenPort
    /\ got # <<>>
    /\ ~WellFormedResponse(got)
    /\ ~WellFormedRequest(got)
    /\ pre.device_state = "testing"
    /\ device_state = "testing"
    /\ prog_state = 7

\* C10 as stated: after any read attempt that does not decode a valid
\* response (zero bytes, invalid frame, transport closed), part_number
\* still equals the model reported by the most recent valid response.
C10_Original ==
    (op = "read_response" /\ ret.kind # "data")
    => part_number = last_valid.part_number

\* C10 (amended): the model identifier is not kept across read attempts:
\* after any read attempt that does not decode a valid response
\* part_number is empty, and after one that does it is the model of that
\* response.
C10_PartNumberOfLastRead ==
    op = "read_response"
    => part_number = IF ret.kind = "data" THEN ret.data.part_number ELSE None

\* A read attempt after a valid response has decoded nothing, and the
\* model identifier is gone.
C10_Witness ==
    /\ op = "read_response"
    /\ ret.kind # "data"
    /\ last_valid.part_number # None
    /\ part_number = None

-----------------------------------------------------------------------------
(* C11..C20: the commands (SpecCommands) *)

DischargeCommands == {"discharge_cc", "discharge_cp"}

ChargeCommands ==
    {"charge_nimh", "charge_nicd", "charge_liion", "charge_life",
     "charge_vrla", "charge_cv"}

CalibrationCommands == {"calibrate_voltage", "calibrate_current"}

\* The operations that take parameters, and those with a required state.
ParameterCommands ==
    DischargeCommands \cup ChargeCommands \cup CalibrationCommands
        \cup {"measure_resistance"}

StateCommands ==
    ParameterCommands \cup {"start_device", "stop_device", "stop_test"}

\* Whether the session fields f are the state the operation requires.
RequiredState(name, f) ==
    CASE name = "start_device" -> f.device_state = "idle"
      [] name = "stop_test" -> f.device_state = "testing"
      [] name = "calibrate_current" ->
             f.device_state = "testing" /\ f.prog_state = 0
      [] OTHER -> f.device_state = "monitoring"

\* Whether the call has a parameter out of its range: a negative current,
\* voltage or power, a duration outside 0..999, less than one cell, a
\* level other than lower and upper, a resistance current outside
\* 0..30000 mA.
OutOfRange(call) ==
    CASE call.name \in DischargeCommands ->
             call.a < 0 \/ call.b < 0 \/ call.c < 0 \/ call.c > 999
      [] call.name \in ChargeCommands ->
             call.a < 0 \/ call.b < 1 \/ call.c < 0 \/ call.c > 999
      [] call.name \in CalibrationCommands ->
             call.a < 0 \/ call.level \notin {"lower", "upper"}
      [] call.name = "measure_resistance" -> call.a < 0 \/ call.a > 30000
      [] OTHER -> FALSE

\* C11: for every command operation (start device: idle; stop device:
\* monitoring; stop test: testing; discharge, charge, measure resistance,
\* calibrate voltage: monitoring; calibrate current: testing and
\* prog_state = discharge constant current), a call made when the required
\* state does not hold writes no bytes to the transport, does not raise and
\* leaves device_state and prog_state unchanged.
C11_NoOpOutsideState ==
    (op \in StateCommands /\ ~RequiredState(op, cmd_pre))
    => /\ tx = <<>>
       /\ ret.kind # "raise"
       /\ device_state = cmd_pre.device_state
       /\ prog_state = cmd_pre.prog_state

\* stop_test has been called on an open port in state idle and has sent
\* nothing.
C11_Witness ==
    /\ op = "stop_test"
    /\ cmd_pre.device_state = "idle"
    /\ is_open
    /\ tx = <<>>
    /\ ret.kind = "None"

\* C12: a parameter error is always surfaced to the caller: for every
\* parameterised operation and every session state, a call with an
\* out-of-range parameter ends in a parameter error, including when the
\* session is not in the operation's required state.
C12_ParameterErrorAlways ==
    (op \in ParameterCommands /\ OutOfRange(cmd)) => ret.kind = "raise"

\* C13: when the session is in the operation's required state, a call with
\* an out-of-range parameter ends in an error before the transport is
\* touched: no bytes are written, the input buffer is not discarded and
\* device_state is unchanged.
C13_ErrorBeforeTransport ==
    (/\ op \in ParameterCommands
     /\ RequiredState(op, cmd_pre)
     /\ OutOfRange(cmd))
    => /\ ret.kind = "raise"
       /\ tx = <<>>
       /\ ~flushed
       /\ device_state = cmd_pre.device_state

\* A lithium-ion charge of 1000 minutes has been refused in state
\* monitoring with bytes waiting in the input buffer.
C13_Witness ==
    /\ op = "charge_liion"
    /\ cmd.c = 1000
    /\ cmd_pre.device_state = "monitoring"
    /\ is_open
    /\ Len(rx) > 0
    /\ ret.kind = "raise"

\* The program selector of a start-program operation.
Selector(name) ==
    CASE name = "discharge_cc" -> 0
      [] name = "discharge_cp" -> 1
      [] name = "charge_nimh" -> 2
      [] name = "charge_nicd" -> 3
      [] name = "charge_liion" -> 4
      [] name = "charge_life" -> 5
      [] name = "charge_vrla" -> 6
      [] name = "charge_cv" -> 7

\* C14: every start-program operation (discharge constant current,
\* discharge constant power, charge NiMH, NiCd, LiIon, LiFe, VRLA, constant
\* voltage) called in state monitoring with valid parameters writes one
\* frame whose command byte combines the action start test (low nibble 1)
\* with the operation's program selector (bits 6..4 = 0..7 respectively),
\* and for charges p1 = current x 1000, p2 = cell count, p3 = duration.
\* The port is open and the current fits a parameter field.
C14_StartProgramFrame ==
    (/\ op \in DischargeCommands \cup ChargeCommands
     /\ cmd_pre.device_state = "monitoring"
     /\ is_open
     /\ ~OutOfRange(cmd)
     /\ cmd.a <= 57600)
    => /\ Len(tx) = 1
       /\ tx[1][2] % 16 = 1
       /\ (tx[1][2] \div 16) % 8 = Selector(op)
       /\ op \in ChargeCommands
          => tx[1] = RequestLayout(tx[1][2], cmd.a, cmd.b, cmd.c)

\* C15: after any sequence of operations, no frame written to the transport
\* carries the action continue test (low nibble 8) or update test (low
\* nibble 7) in its command byte.
C15_NoContinueNoUpdateOnWire ==
    \A k \in 1..Len(tx) : tx[k][2] % 16 \notin {7, 8}

\* C16: continue_test and update_test, called in any session state, always
\* fail with a not-supported error, build no frame, write no bytes and
\* leave device_state, prog_state and part_number unchanged.
C16_NotSupported ==
    op \in {"continue_test", "update_test"}
    => /\ ret.kind = "raise"
       /\ ret.exc = "NotImplementedError"
       /\ tx = <<>>
       /\ Session = cmd_pre

\* continue_test has been called on an open port during a test.
C16_Witness ==
    /\ op = "continue_test"
    /\ is_open
    /\ cmd_pre.device_state = "testing"
    /\ cmd_pre.part_number # None
    /\ ret.kind = "raise"

\* The selector of a calibration: voltage lower 0, voltage upper 1,
\* current lower 2, current upper 3.
Offset(name, level) ==
    (IF name = "calibrate_current" THEN 2 ELSE 0)
        + (IF level = "upper" THEN 1 ELSE 0)

\* A calibration with valid parameters has been called in its required
\* state on an open port.
CalibrationCalled ==
    /\ op \in CalibrationCommands
    /\ RequiredState(op, cmd_pre)
    /\ is_open
    /\ ~OutOfRange(cmd)

\* C17: with raw = value x 1000 (an integer number of mV or mA),
\* calibrate_voltage and calibrate_current in their required state send
\* action = calibrate with p1 = raw div 240 + 240 x offset,
\* p2 = (raw mod 240) x 240, p3 = 0, where offset is 0 (voltage, lower),
\* 1 (voltage, upper), 2 (current, lower), 3 (current, upper).
C17_CalibrationEncoding ==
    CalibrationCalled
    => tx = <<RequestLayout(4, cmd.a \div 240
                                   + 240 * Offset(op, cmd.level),
                            (cmd.a % 240) * 240, 0)>>

\* C18: a calibration never wraps silently: one whose raw value does not
\* fit the combined field (raw >= 57600) is rejected with a parameter error
\* and sends nothing; every calibration frame written has its selector byte
\* (p1 div 240) equal to the offset of the channel and level asked for.
C18_CalibrationNeverWraps ==
    CalibrationCalled
    => /\ cmd.a >= 57600 => (ret.kind = "raise" /\ tx = <<>>)
       /\ \A k \in 1..Len(tx) : tx[k][3] = Offset(op, cmd.level)

\* C19: measure_resistance never crashes: for every current in 0..30000 mA,
\* called in state monitoring, it returns a resistance or no result for
\* every outcome of the read that follows (no bytes, an invalid frame, a
\* valid response with any capacity) and never raises.
C19_ResistanceNeverRaises ==
    (/\ op = "measure_resistance"
     /\ cmd_pre.device_state = "monitoring"
     /\ is_open
     /\ cmd.a \in 0..30000
     /\ ~WellFormedRequest(got))
    => ret.kind \in {"value", "None"}

\* C20: measure_resistance with requested current I mA (I > 0) whose read
\* decodes a valid response with capacity field c returns the integer part
\* of c / (I / 1000), that is (c x 1000) div I; the request sent is
\* action = measure resistance with p1 = I, p2 = 0, p3 = 0.
C20_ResistanceValue ==
    (/\ op = "measure_resistance"
     /\ cmd_pre.device_state = "monitoring"
     /\ is_open
     /\ cmd.a \in 1..30000
     /\ WellFormedResponse(got))
    => /\ ret.kind = "value"
       /\ ret.value = ((got[7] * 240 + got[8]) * 1000) \div cmd.a
       /\ tx = <<RequestLayout(9, cmd.a, 0, 0)>>

-----------------------------------------------------------------------------
(* C21, C22: markers and the base-240 fields (SpecCodec, SpecRoundTrip) *)

\* C21: every buffer of length 10 or 19 whose first byte is not 250 or
\* whose last byte is not 248 is rejected by decode with a marker warning
\* (begin marker when the first byte is wrong, end marker otherwise),
\* whatever its checksum byte is, also when it matches the payload.
C21_MarkerProperty ==
    (/\ c_dec # Pending
     /\ Len(c_buff) \in {10, 19}
     /\ (c_buff[1] # 250 \/ c_buff[Len(c_buff)] # 248))
    => /\ c_dec.kind = "None"
       /\ c_dec.warning = IF c_buff[1] # 250 THEN "begin" ELSE "end"

\* A frame that decoded had its end marker replaced, its checksum byte
\* still matching the payload, and was rejected.
C21_Witness ==
    /\ c_dec # Pending
    /\ c_base_dec # Pending
    /\ c_base_dec.kind = "data"
    /\ c_pos = 18
    /\ c_buff[19] # 248
    /\ c_buff[18] = reduce_xor(SubSeq(c_buff, 2, 17)) % 240
    /\ c_dec.kind = "None"

\* The value decode gives for a field of the descriptor (current and
\* voltage in thousandths).
DecodedField(data, field) ==
    CASE field = "i" -> data.i
      [] field = "u" -> data.u
      [] field = "c" -> data.c
      [] field = "unknown" -> data.unknown
      [] field = "p1" -> data.p1
      [] field = "p2" -> data.p2
      [] field = "p3" -> data.p3

\* C22: a 19-byte response fixture carrying (v div 240, v mod 240) in a
\* metric or echoed-parameter field, v in 0..57599, decodes to exactly v in
\* that field (thousandths for current and voltage) and to 0 in the others.
C22_RoundTrip ==
    (c_fix # NoFix /\ c_fix.v \in 0..57599 /\ c_dec # Pending)
    => /\ c_dec.kind = "data"
       /\ \A k \in 1..7 :
              DecodedField(c_dec.data, FieldNames[k]) =
                  IF FieldNames[k] = c_fix.field THEN c_fix.v ELSE 0

\* The largest value, 57599 = (239, 239), was carried in the capacity
\* field and decoded.
C22_Witness ==
    /\ c_fix = [field |-> "c", v |-> 57599]
    /\ c_dec # Pending
    /\ c_dec.kind = "data"
    /\ c_dec.data.c = 57599

-----------------------------------------------------------------------------
(* C23..C26: what the commands write and change (SpecCommands) *)

\* The three parameters a ten-byte frame carries.
FrameParameters(b) ==
    <<b[3] * 240 + b[4], b[5] * 240 + b[6], b[7] * 240 + b[8]>>

\* Whether a parameter of the call, scaled as the protocol says (current
\* x 1000, cut-off voltage x 100, power x 10, cells and duration as they
\* are), is above 57600; the arguments are in thousandths.
Overscaled(call) ==
    CASE call.name = "discharge_cc" -> call.a > 57600 \/ call.b > 576000
      [] call.name = "discharge_cp" -> call.a > 5760000 \/ call.b > 576000
      [] call.name \in ChargeCommands -> call.a > 57600 \/ call.b > 57600
      [] OTHER -> FALSE

\* Every frame a command wrote is a well-formed ten-byte frame whose
\* parameters are in 0..57600.
FramesInRange ==
    \A k \in 1..Len(tx) :
        /\ WellFormedRequest(tx[k])
        /\ \A j \in 1..3 : FrameParameters(tx[k])[j] \in 0..57600

AllCommands == StateCommands \cup {"continue_test", "update_test"}

\* C25 as stated: with the transport open no command operation, whatever
\* its outcome, changes device_state or prog_state.
C25_Original ==
    (op \in AllCommands /\ is_open)
    => /\ device_state = cmd_pre.device_state
       /\ prog_state = cmd_pre.prog_state

\* What a read attempt that obtained the buffer b makes of the state f:
\* idle on no bytes, the status and program of a well-formed response,
\* monitoring on a well-formed ten-byte frame, no change otherwise.
StateAfterRead(b, f) ==
    IF b = <<>>
        THEN [device_state |-> "idle", prog_state |-> f.prog_state]
    ELSE IF WellFormedResponse(b)
        THEN [device_state |->
                  IF b[2] \div 10 = 1 THEN "testing"
                  ELSE IF b[2] \div 10 = 2 THEN "ending"
                  ELSE "monitoring",
              prog_state |-> b[2] % 10]
    ELSE IF WellFormedRequest(b)
        THEN [device_state |-> "monitoring", prog_state |-> f.prog_state]
    ELSE [device_state |-> f.device_state, prog_state |-> f.prog_state]

\* measure_resistance came to its read attempt.
ResistanceRead ==
    /\ op = "measure_resistance"
    /\ is_open
    /\ RequiredState(op, cmd_pre)
    /\ ~OutOfRange(cmd)

\* C25: with the transport open no command operation changes device_state
\* or prog_state, except measure_resistance when it comes to its read
\* attempt: the state is then what that read attempt makes of it.
C25_StateOnlyByReads ==
    /\ (op \in AllCommands /\ is_open /\ ~ResistanceRead)
       => /\ device_state = cmd_pre.device_state
          /\ prog_state = cmd_pre.prog_state
    /\ ResistanceRead
       => /\ device_state = StateAfterRead(got, cmd_pre).device_state
          /\ prog_state = StateAfterRead(got, cmd_pre).prog_state

\* measure_resistance has been called in state monitoring, no byte arrived
\* and the state is idle.
C25_Witness ==
    /\ ResistanceRead
    /\ got = <<>>
    /\ cmd_pre.device_state = "monitoring"
    /\ device_state = "idle"

\* C26: in state monitoring on an open port, with valid parameters that fit
\* a parameter field, discharge_cc writes one frame of command byte 0x01
\* with p1 = current x 1000, p2 = cut-off voltage x 100, p3 = duration, and
\* discharge_cp one frame of command byte 0x11 with p1 = power x 10 and the
\* same p2 and p3 (where the scaled value is a whole number); a duration of
\* 999 is accepted and a duration of 1000 is rejected.
C26_DischargeShapes ==
    /\ (/\ op \in DischargeCommands
        /\ cmd_pre.device_state = "monitoring"
        /\ is_open
        /\ ~OutOfRange(cmd)
        /\ ~Overscaled(cmd))
       => /\ Len(tx) = 1
          /\ WellFormedRequest(tx[1])
          /\ tx[1][2] = IF op = "discharge_cc" THEN 1 ELSE 17
          /\ op = "discharge_cc" => FrameParameters(tx[1])[1] = cmd.a
          /\ (op = "discharge_cp" /\ cmd.a % 100 = 0)
             => FrameParameters(tx[1])[1] = cmd.a \div 100
          /\ cmd.b % 10 = 0 => FrameParameters(tx[1])[2] = cmd.b \div 10
          /\ FrameParameters(tx[1])[3] = cmd.c
    /\ (/\ op \in DischargeCommands
        /\ cmd_pre.device_state = "monitoring"
        /\ cmd.a >= 0 /\ cmd.b >= 0 /\ cmd.c = 1000)
       => ret.kind = "raise" /\ tx = <<>>

-----------------------------------------------------------------------------
(* C27, C28: the safety watcher and the polling loops (SpecWatcher,        *)
(* SpecPolling)                                                            *)

PolledResponse ==
    /\ op \in PollingPrograms
    /\ ret.kind = "data"
    /\ loop \in PollingPrograms

\* C28: in the polling loops, blocking safety being enabled, an iteration
\* whose valid testing response reports a current more than 0.05 A above
\* the minimum current of the testing responses received since the test was
\* last seen to start writes a stop-test request frame.
C28_StopOnRise ==
    (/\ PolledResponse
     /\ Armed
     /\ samples[Len(samples)].i > MinCurrentSinceArmed + 50)
    => tx = <<RequestLayout(2, 0, 0, 0)>>

-----------------------------------------------------------------------------
(* C29, C30: what a read attempt takes from the input buffer (SpecCommands, *)
(* SpecBacklog)                                                             *)

\* C29: measure_resistance, called in state monitoring on an open port with
\* a valid current, writes its request, discards the input buffer and makes
\* one read attempt, in this order: the buffer read is made of bytes that
\* arrived after the discard only (at most 19, the rest left waiting), none
\* of the bytes waiting before the call, and a result is computed from a
\* well-formed response read so.
C29_ResistanceOrder ==
    ResistanceRead
    => /\ tx = <<RequestLayout(9, cmd.a, 0, 0)>>
       /\ flushed
       /\ got \o rx_left = arrived
       /\ Len(got) <= 19
       /\ ret.kind = "value" => WellFormedResponse(got)

\* measure_resistance has been called with a testing response waiting in
\* the input buffer, an ended response arrived after the discard and the
\* result is computed from it.
C29_Witness ==
    /\ ResistanceRead
    /\ rx_pre = ResponseFixture(10, 1000, 7, 5)
    /\ arrived = ResponseFixture(0, 1000, 500, 5)
    /\ got = arrived
    /\ ret.kind = "value"

\* C30: on a read attempt with the transport open, an input buffer of more
\* than 19 bytes is discarded whole before the read, so that what is read
\* and what is left are the bytes that arrived afterwards; an input buffer
\* of 19 bytes or fewer is kept whole, what is read and what is left being
\* its bytes followed by those that arrived; the read takes at most 19
\* bytes.
C30_BacklogBound ==
    (op = "read_response" /\ pre.is_open)
    => /\ Len(rx_pre) > 19 => got \o rx_left = arrived
       /\ Len(rx_pre) <= 19 => got \o rx_left = rx_pre \o arrived
       /\ Len(got) <= 19

\* A read attempt found 29 bytes waiting, discarded them and read the
\* response that arrived afterwards.
C30_Witness ==
    /\ op = "read_response"
    /\ pre.is_open
    /\ Len(rx_pre) = 29
    /\ arrived = ResponseFixture(0, 1000, 500, 5)
    /\ got = arrived
    /\ rx_left = <<>>

-----------------------------------------------------------------------------
(* C31: recovery from misalignment (SpecAlign) *)

\* C31: the device keeping on sending well-formed 19-byte responses, and
\* the input buffer starting in the middle of a frame (fewer than 19 stale
\* bytes), repeated calls of read_response eventually return a decoded
\* response.
C31_EventuallyDecodes == <>(op = "read_response" /\ ret.kind = "data")

-----------------------------------------------------------------------------
(* C32: menu dispatch (SpecMenu) *)

\* The device operation a menu entry is named after, called with the
\* values typed at its prompts.
NamedOperation(call, f, open, waiting, arriving) ==
    CASE call.name = "StartDevice" -> start_device(f, open)
      [] call.name = "StopDevice" -> stop_device(f, open)
      [] call.name = "StopTest" -> stop_test(f, open)
      [] call.name = "ConstantCurrentDischarge" ->
             discharge_cc(f, open, call.a, call.b, call.c)
      [] call.name = "ConstantPowerDischarge" ->
             discharge_cp(f, open, call.a, call.b, call.c)
      [] call.name = "NimhCharge" ->
             charge_nimh(f, open, call.a, call.b, call.c)
      [] call.name = "NicdCharge" ->
             charge_nicd(f, open, call.a, call.b, call.c)
      [] call.name = "LiionCharge" ->
             charge_liion(f, open, call.a, call.b, call.c)
      [] call.name = "LifeCharge" ->
             charge_life(f, open, call.a, call.b, call.c)
      [] call.name = "VrlaCharge" ->
             charge_vrla(f, open, call.a, call.b, call.c)
      [] call.name = "CvCharge" ->
             charge_cv(f, open, call.a, call.b, call.c)
      [] call.name = "ResistanceMeasurement" ->
             measure_resistance(f, open, call.a, waiting, arriving)
      [] call.name = "LowVoltageCalibration" ->
             calibrate_voltage(f, open, call.a, "lower")
      [] call.name = "HighVoltageCalibration" ->
             calibrate_voltage(f, open, call.a, "upper")
      [] call.name = "LowCurrentCalibration" ->
             calibrate_current(f, open, call.a, "lower")
      [] call.name = "HighCurrentCalibration" ->
             calibrate_current(f, open, call.a, "upper")

\* C32: a menu entry does what the device operation it is named after does
\* with the values entered: it writes the same frames, leaves the same
\* state and raises when and what the operation raises.  In particular the
\* constant power discharge entry, chosen in state monitoring, writes a
\* start_d_cp request whose first parameter is ten times the power.
C32_MenuDispatch ==
    cmd.name \in MenuEntries
    => LET named == NamedOperation(cmd, cmd_pre, is_open, rx_pre, arrived)
       IN /\ tx = named.tx
          /\ device_state = named.s.device_state
          /\ (ret.kind = "raise") = (named.ret.kind = "raise")
          /\ ret.kind = "raise" => ret.exc = named.ret.exc
          /\ (cmd.name = "ConstantPowerDischarge"
              /\ cmd_pre.device_state = "monitoring")
             => /\ Len(tx) = 1
                /\ tx[1] = encode("start_d_cp", int_scaled(cmd.a, 10),
                                  int_scaled(cmd.b, 100), cmd.c).buff

-----------------------------------------------------------------------------
(* C33: the end of ContinuousReadDuringTest (SpecPolling) *)

\* C33: an iteration of ContinuousReadDuringTest ends the program by
\* returning exactly when its read attempt leaves device_state
\* disconnected, idle or monitoring; while read attempts leave it testing
\* or ending the loop goes on.
C33_ReturnsOnExitState ==
    op = "ContinuousReadDuringTest"
    => /\ device_state \in {"disconnected", "idle", "monitoring"}
          <=> loop = "returned"
       /\ device_state \in {"testing", "ending"}
          <=> loop = "ContinuousReadDuringTest"

-----------------------------------------------------------------------------
(* C34: no marker value inside a request frame (SpecCodec) *)

\* C34: in every request frame encode produces, the command byte, the six
\* parameter bytes and the checksum byte are each at most 240, so that 250
\* and 248 occur at the first and the last position only.
C34_NoMarkerInside ==
    (c_req # NoReq /\ c_enc.kind = "bytes" /\ c_enc.buff # <<>>)
    => /\ Len(c_enc.buff) = 10
       /\ c_enc.buff[1] = BEGIN_MARKER
       /\ c_enc.buff[10] = END_MARKER
       /\ \A k \in 2..9 :
              /\ c_enc.buff[k] <= 240
              /\ c_enc.buff[k] \notin {BEGIN_MARKER, END_MARKER}

\* A request with all three parameters at their upper bound was encoded:
\* its high parameter bytes are 240.
C34_Witness ==
    /\ c_req # NoReq
    /\ c_req.p1 = 57600
    /\ c_enc.kind = "bytes"
    /\ Len(c_enc.buff) = 10
    /\ c_enc.buff[3] = 240 /\ c_enc.buff[5] = 240 /\ c_enc.buff[7] = 240

-----------------------------------------------------------------------------
(* C35: the program kept by the session (SpecCommands) *)

\* C35: after any sequence of reads and commands prog_state is the program
\* of the most recent valid response, and empty when there was none yet,
\* whatever empty reads, invalid frames or reads on a closed port came
\* later; and the session is in state monitoring, testing or ending only
\* when at least one valid response has been decoded.
C35_ProgramOfLastValid ==
    /\ prog_state = last_valid.prog_code
    /\ device_state \in {"monitoring", "testing", "ending"}
       => last_valid.prog_code # None

=============================================================================
